---- MODULE Spec2Model ----
(***************************************************************************)
(* A model of the CoGenAssess / genrisk toolkit.                           *)
(*                                                                         *)
(* Spec     the association engine: find_pvalue (pipeline.py) and the      *)
(*          per-backend helpers (helpers.py), the worker pool included.    *)
(* SpecCli  the click command layer (genrisk/cli.py, cogenassess/cli.py).  *)
(* SpecData the tables: calc_corr, uni_profiles and the first lines of     *)
(*          find_pvalue on small tables (pandas merge, dropna, replace).   *)
(*                                                                         *)
(* Numbers.  A p-value p is the integer p * PScale; NaN is a value below   *)
(* every number, on which every comparison is false, as in IEEE 754.       *)
(* What scipy / statsmodels answer for one gene is an input of the model   *)
(* (lib): a p-value, NaN (a degenerate sample on which the test does not   *)
(* raise, e.g. ttest_ind of two constant samples) or an exception.         *)
(***************************************************************************)
EXTENDS Integers, Sequences, FiniteSets, TLC

\* ------------------------------------------------------------- bounds
NGenes == 3
NCats == 3
MaxProcs == 2
PScale == 100

\* ------------------------------------------------------------- values
None == "None"
NoCat == 0
NaN == 0 - 1
Raises == 0 - 2
IsNaN(x) == x = NaN

Genes == 1..NGenes
UnknownGene == NGenes + 1
PVals == {1, 2, PScale \div 2}
Outcomes == PVals \cup {NaN, Raises}

Min(a, b) == IF a <= b THEN a ELSE b
Max(a, b) == IF a >= b THEN a ELSE b

VARIABLES
    call,          \* the arguments of the engine call, and what the libraries answer
    pc,            \* where the engine call is
    genes,         \* the gene list being tested
    cc,            \* the two compared categories
    idx,           \* the loop's position in genes
    p_values,      \* the rows collected so far
    p_values_df,   \* the result table
    output_file,   \* the written file
    returned,      \* the returned table
    error,         \* the exception that ended the call
    nextTask,      \* pool: the next task the task handler sends
    worker,        \* pool: each worker process
    results,       \* pool: the results received, by task number
    overtaken      \* pool: a task completed while an earlier one was unfinished

engineVars == <<call, pc, genes, cc, idx, p_values, p_values_df, output_file,
                returned, error, nextTask, worker, results, overtaken>>

VARIABLES
    cmd,           \* the command line: program, command, options given, first file system
    cpc,           \* the statement of the command's body that runs next; 0 while parsing
    calling,       \* the function the command is inside of
    locals,        \* the local variables of the command's body
    trace,         \* what the command did so far: calls, returns, prompts, messages
    exit_code,     \* the exit status of the process
    fs             \* the directories and files that exist

cliVars == <<cmd, cpc, calling, locals, trace, exit_code, fs>>

\* No process has an exit status while it runs.
NoExit == 0 - 1

\* ---------------------------------------------------------- data frames
\* A table is its column labels and its rows, each row a sequence of values.
NoTable == [cols |-> <<>>, rows |-> <<>>, ok |-> FALSE]

\* pd.DataFrame(rows, columns=cols): the longest row must have as many values as
\* there are labels; a shorter row is filled up with missing values.
DataFrameOk(rows, cols) ==
    \/ rows = <<>>
    \/ /\ \A k \in 1..Len(rows) : Len(rows[k]) <= Len(cols)
       /\ \E k \in 1..Len(rows) : Len(rows[k]) = Len(cols)
DataFrame(rows, cols) ==
    [cols |-> cols,
     rows |-> [k \in 1..Len(rows) |->
                  rows[k] \o [j \in 1..(Len(cols) - Len(rows[k])) |-> NaN]],
     ok |-> TRUE]

ColIndex(cols, name) == CHOOSE k \in 1..Len(cols) : cols[k] = name
HasCol(df, name) == \E k \in 1..Len(df.cols) : df.cols[k] = name
Column(df, name) == [k \in 1..Len(df.rows) |-> df.rows[k][ColIndex(df.cols, name)]]

RECURSIVE Insert(_, _, _)
\* v put into the ascending sequence s after every element whose key is <= its own.
Insert(s, v, c) ==
    IF s = <<>> THEN <<v>>
    ELSE IF s[Len(s)][c] <= v[c] THEN Append(s, v)
    ELSE Append(Insert(SubSeq(s, 1, Len(s) - 1), v, c), s[Len(s)])

RECURSIVE SortNumbers(_, _)
SortNumbers(rows, c) ==
    IF rows = <<>> THEN <<>>
    ELSE Insert(SortNumbers(SubSeq(rows, 1, Len(rows) - 1), c), rows[Len(rows)], c)

\* The mutant of SortValues: the rows left in the order they were collected.
SortValuesOmitted(df, by) == df

\* df.sort_values(by=[by]): ascending, the rows whose key is NaN last
\* (na_position='last'), equal keys in their original order.
SortValues(df, by) ==
    LET c == ColIndex(df.cols, by)
        nums == SelectSeq(df.rows, LAMBDA r : ~IsNaN(r[c]))
        nans == SelectSeq(df.rows, LAMBDA r : IsNaN(r[c]))
    IN  [df EXCEPT !.rows = SortNumbers(nums, c) \o nans]

\* ------------------------------------------------------ the engine call
TwoGroupTests == {"mannwhitneyu", "ttest_ind"}
RegressionTests == {"logit", "glm"}
TwoGroupHelpers == {"run_mannwhitneyu", "run_ttest"}
PoolHelpers == {"get_pvals_logit", "get_pvals_linear"}
AdjMethods == {"bonferroni", "holm"}

\* df_by_cases.groups.keys(): the outcome categories of the merged table, sorted.
GroupKeys(n) == [k \in 1..n |-> k]

\* scores_df.columns.tolist()[1:]
AllColumns == [k \in 1..NGenes |-> k]

\* An optional list: given is FALSE for Python's None.
NoList == [given |-> FALSE, list |-> <<>>]
Given(l) == [given |-> TRUE, list |-> l]

GeneLists == {<<>>, AllColumns, <<NGenes, 1>>, <<1, UnknownGene>>}
GeneArgs == {NoList} \cup {Given(l) : l \in GeneLists}
CovArgs == {NoList, Given(<<"PC1">>)}

\* The outcome categories of the merged table, and the cases / controls arguments
\* (NoCat for None).
Splits ==
    [ngroups : 0..NCats, cases : {NoCat}, controls : {NoCat}]
    \cup [ngroups : {1, NCats}, cases : {2}, controls : {1}]
    \cup [ngroups : {2}, cases : {NCats + 1}, controls : {1}]
    \cup [ngroups : {2}, cases : {2}, controls : {NoCat}]

NoSplit == [ngroups |-> 2, cases |-> NoCat, controls |-> NoCat]

\* What the library answers for each gene column of the score matrix.
Libs == [Genes -> Outcomes]
\* Where other inputs multiply the runs: the answers for the first two genes vary.
FewLibs == {l \in Libs : \A g \in Genes : g > 2 => l[g] = 2}
SomeLib == [g \in Genes |-> 1]

MakeCall(fn, test, genesArg, split, lib, adj, cov, procs) ==
    [fn |-> fn, test |-> test, genes |-> genesArg, split |-> split, lib |-> lib,
     adj_pval |-> adj, covariates |-> cov, processes |-> procs, flat |-> {}]

\* The same call on a table in which the score columns flat have one value, not
\* zero, for every sample.
OnFlat(c, flat) == [c EXCEPT !.flat = flat]
FlatColumns == {{}, {1}}

\* ------------------------------------------------ two-group backends
\* cc: [cases, controls] when both are given, else the grouping's keys.
Categories(split) ==
    IF split.cases # NoCat /\ split.controls # NoCat
    THEN <<split.cases, split.controls>>
    ELSE GroupKeys(split.ngroups)

\* df_by_cases.get_group(cc[k])[gene]: what it raises, None when it returns.
GetGroupError(categories, k, ngroups, gene) ==
    IF Len(categories) < k THEN "IndexError"
    ELSE IF categories[k] \notin 1..ngroups THEN "KeyError"
    ELSE IF gene \notin Genes THEN "KeyError"
    ELSE None

\* The two lookups that precede the try block of one iteration.
CaseListsError(categories, ngroups, gene) ==
    IF GetGroupError(categories, 1, ngroups, gene) # None
    THEN GetGroupError(categories, 1, ngroups, gene)
    ELSE GetGroupError(categories, 2, ngroups, gene)

\* The statistic the test reports for a gene.
StatisticOf(gene) == 10 * PScale + gene

TwoGroupCols == <<"genes", "statistic", "p_value">>

\* ------------------------------------------- multiple-testing correction
Cap(x) == IF x > PScale THEN PScale ELSE x

\* statsmodels' bonferroni: pvals * ntests, capped at 1; NaN stays NaN.
Bonferroni(pvals) ==
    [k \in 1..Len(pvals) |->
        IF IsNaN(pvals[k]) THEN NaN ELSE Cap(pvals[k] * Len(pvals))]

\* The rank of pvals[k] in the ascending order (the first of its ties).
RankOf(pvals, k) ==
    1 + Cardinality({j \in 1..Len(pvals) : ~IsNaN(pvals[j]) /\ pvals[j] < pvals[k]})

SetMax(S) == CHOOSE x \in S : \A y \in S : y <= x

\* statsmodels' holm: the running maximum of p(i) * (ntests - i + 1) over the
\* ascending order, capped at 1, given back in the order of pvals.
Holm(pvals) ==
    [k \in 1..Len(pvals) |->
        IF IsNaN(pvals[k]) THEN NaN
        ELSE Cap(SetMax({pvals[j] * (Len(pvals) - RankOf(pvals, j) + 1) :
                            j \in {i \in 1..Len(pvals) :
                                     ~IsNaN(pvals[i]) /\ pvals[i] <= pvals[k]}}))]

\* multipletests(pvals, method)[1]
MultipleTests(pvals, method) ==
    IF method = "bonferroni" THEN Bonferroni(pvals) ELSE Holm(pvals)

AdjustedColumnName(method) == method \o "_adj_pval"

\* The mutant of WithAdjusted: the adjusted values of the reversed p-value vector.
WithAdjustedReversed(df, method) ==
    LET n == Len(df.rows)
        adjusted == MultipleTests(Column(df, "p_value"), method)
    IN  [df EXCEPT !.cols = Append(df.cols, AdjustedColumnName(method)),
                   !.rows = [k \in 1..n |-> Append(df.rows[k], adjusted[n + 1 - k])]]

\* p_values_df[adj_pval + '_adj_pval'] = multipletests(...)[1]
WithAdjusted(df, method) ==
    LET adjusted == MultipleTests(Column(df, "p_value"), method)
    IN  [df EXCEPT !.cols = Append(df.cols, AdjustedColumnName(method)),
                   !.rows = [k \in 1..Len(df.rows) |-> Append(df.rows[k], adjusted[k])]]

\* ----------------------------------------------------- find_pvalue
poolVars == <<nextTask, worker, results, overtaken>>

Abort(e) ==
    /\ pc' = "error"
    /\ error' = e

\* The mutant of TestSelected: an unrecognized selector run as mannwhitneyu.
TestSelectedDefault(test) ==
    IF test \in TwoGroupTests \cup RegressionTests THEN test ELSE "mannwhitneyu"

\* The branch find_pvalue's if / elif chain takes: the test, or None for the else.
TestSelected(test) ==
    IF test \in TwoGroupTests \cup RegressionTests THEN test ELSE None

\* find_pvalue down to the test's loop. The phenotype table is read, filtered and
\* joined to the scores (call.split.ngroups outcome categories remain).
FindPvalueStart ==
    /\ pc = "start"
    /\ call.fn = "find_pvalue"
    /\ cc' = Categories(call.split)
    /\ genes' = IF call.genes.given THEN call.genes.list ELSE AllColumns
    /\ idx' = 1
    /\ pc' = IF TestSelected(call.test) \in TwoGroupTests THEN "twogroup"
             ELSE IF TestSelected(call.test) \in RegressionTests THEN "regression"
             ELSE "invalid"
    /\ UNCHANGED <<call, p_values, p_values_df, output_file, returned, error>>
    /\ UNCHANGED poolVars

\* else: raise Exception("The test you selected is not valid.")
FindPvalueInvalidTest ==
    /\ pc = "invalid"
    /\ Abort("Exception")
    /\ UNCHANGED <<call, genes, cc, idx, p_values, p_values_df, output_file, returned>>
    /\ UNCHANGED poolVars

\* run_mannwhitneyu / run_ttest down to the loop.
RunTwoGroupStart ==
    /\ pc = "start"
    /\ call.fn \in TwoGroupHelpers
    /\ cc' = Categories(call.split)
    /\ genes' = call.genes.list
    /\ idx' = 1
    /\ pc' = "twogroup"
    /\ UNCHANGED <<call, p_values, p_values_df, output_file, returned, error>>
    /\ UNCHANGED poolVars

\* One iteration of the loop over the genes: the two group lookups, then the test
\* inside try / except: continue.
TwoGroupStep ==
    /\ pc = "twogroup"
    /\ idx <= Len(genes)
    /\ LET gene == genes[idx]
           e == CaseListsError(cc, call.split.ngroups, gene)
       IN  IF e # None
           THEN /\ Abort(e)
                /\ UNCHANGED <<idx, p_values>>
           ELSE /\ idx' = idx + 1
                /\ p_values' = IF call.lib[gene] = Raises
                               THEN p_values
                               ELSE Append(p_values,
                                           <<gene, StatisticOf(gene), call.lib[gene]>>)
                /\ UNCHANGED <<pc, error>>
    /\ UNCHANGED <<call, genes, cc, p_values_df, output_file, returned>>
    /\ UNCHANGED poolVars

\* After the loop: the table, sorted by p_value. The helpers return it; find_pvalue
\* goes on to its tail.
TwoGroupFinish ==
    /\ pc = "twogroup"
    /\ idx > Len(genes)
    /\ p_values_df' = SortValues(DataFrame(p_values, TwoGroupCols), "p_value")
    /\ IF call.fn = "find_pvalue"
       THEN /\ pc' = "tail"
            /\ UNCHANGED returned
       ELSE /\ pc' = "done"
            /\ returned' = p_values_df'
    /\ UNCHANGED <<call, genes, cc, idx, p_values, output_file, error>>
    /\ UNCHANGED poolVars

RegressionCols ==
    <<"genes", "const_pval", "p_value">> \o call.covariates.list
        \o (IF call.test = "glm" THEN <<"beta_coef">> ELSE <<>>)

\* The logit / glm loop. cols = [gene] + covariates raises TypeError when no
\* covariates were given; merged_df[[cols]] looks a list up as one column label
\* and raises KeyError. Both precede the try block, so the first gene ends the call
\* and the statements after them are never reached.
RegressionStep ==
    /\ pc = "regression"
    /\ idx <= Len(genes)
    /\ Abort(IF call.covariates.given THEN "KeyError" ELSE "TypeError")
    /\ UNCHANGED <<call, genes, cc, idx, p_values, p_values_df, output_file, returned>>
    /\ UNCHANGED poolVars

\* After the (empty) loop: cols = [...] + covariates, the table, sorted.
RegressionFinish ==
    /\ pc = "regression"
    /\ idx > Len(genes)
    /\ IF call.covariates.given
       THEN /\ p_values_df' = SortValues(DataFrame(p_values, RegressionCols), "p_value")
            /\ pc' = "tail"
            /\ UNCHANGED error
       ELSE /\ Abort("TypeError")
            /\ UNCHANGED p_values_df
    /\ UNCHANGED <<call, genes, cc, idx, p_values, output_file, returned>>
    /\ UNCHANGED poolVars

\* The tail of find_pvalue: the adjusted column when a method is given
\* (multipletests divides by the number of p-values), the file, the return.
FindPvalueTail ==
    /\ pc = "tail"
    /\ IF call.adj_pval # None /\ Len(p_values_df.rows) = 0
       THEN /\ Abort("ZeroDivisionError")
            /\ UNCHANGED <<p_values_df, output_file, returned>>
       ELSE /\ p_values_df' = IF call.adj_pval # None
                              THEN WithAdjusted(p_values_df, call.adj_pval)
                              ELSE p_values_df
            /\ output_file' = p_values_df'
            /\ returned' = p_values_df'
            /\ pc' = "done"
            /\ UNCHANGED error
    /\ UNCHANGED <<call, genes, cc, idx, p_values>>
    /\ UNCHANGED poolVars

\* ------------------------------------------------ the pooled regressions
Workers == 1..MaxProcs

\* What the fit reports: the p-value of the intercept, of the k-th covariate and of a
\* gene's score term (the library's answer for the gene when its column is the
\* only score column of the design, another value when there are more).
ConstPval == PScale - 10
CovPval(k) == PScale - 20 - k
GenePval(lib, gene, ncolumns) ==
    IF ncolumns = 1 \/ IsNaN(lib[gene]) THEN lib[gene]
    ELSE Min(PScale, lib[gene] + ncolumns)
BetaOf(gene) == 20 * PScale + gene
StdErrOf(gene) == 30 * PScale + gene

\* x_set[gene_col[0]] = gene_col[1]: the column replaced when it is there, added
\* as the last one when it is not.
SetColumn(xgenes, gene) ==
    IF \E k \in 1..Len(xgenes) : xgenes[k] = gene THEN xgenes ELSE Append(xgenes, gene)

\* sm.add_constant(x_set): has_constant='skip', the design is returned as it is
\* when one of its columns is a non-zero constant, so the fit has no intercept.
AddConstant(xs, flat) ==
    IF \E k \in 1..Len(xs) : xs[k] \in flat THEN <<>> ELSE <<ConstPval>>

\* run_linear / run_logit on the design of the covariates and the score columns
\* xgenes: the row, or <<Raises>> when the fit raises.
RunRegression(fn, lib, covariates, xgenes, gene, flat) ==
    LET xs == SetColumn(xgenes, gene)
        last == xs[Len(xs)]
        pval == AddConstant(xs, flat)
                \o [k \in 1..Len(covariates) |-> CovPval(k)]
                \o [k \in 1..Len(xs) |-> GenePval(lib, xs[k], Len(xs))]
    IN  IF \E k \in 1..Len(xs) : lib[xs[k]] = Raises
        THEN <<Raises>>
        ELSE IF fn = "get_pvals_linear"
        THEN <<gene>> \o pval \o <<BetaOf(last), StdErrOf(last)>>
        ELSE <<gene>> \o pval \o <<StdErrOf(last)>>

PoolCols(fn, covariates) ==
    <<"genes", "const_pval">> \o covariates
        \o (IF fn = "get_pvals_linear" THEN <<"p_value", "beta_coef", "std_err">>
            ELSE <<"p_value", "std_err">>)

\* The mutant of TaskXSet: the worker goes on with the x_set its last task left
\* (what a chunk of tasks sharing one unpickled function would do).
TaskXSetShared(w) == worker[w].x_genes

\* The score columns of the x_set a task starts from. imap sends every task with
\* its own pickled copy of partial(run_..., x_set=x_set, y_set=y_set), so the x_set
\* holds the covariates alone.
TaskXSet(w) == <<>>

\* get_pvals_logit / get_pvals_linear down to the pool: df[covariates], df[genes]
\* (KeyError for a gene that is no column), Pool(processes), imap.
PoolStart ==
    /\ pc = "start"
    /\ call.fn \in PoolHelpers
    /\ genes' = call.genes.list
    /\ idx' = 1
    /\ IF \E k \in 1..Len(call.genes.list) : call.genes.list[k] \notin Genes
       THEN /\ Abort("KeyError")
            /\ UNCHANGED <<nextTask, results>>
       ELSE /\ pc' = "imap"
            /\ nextTask' = 1
            /\ results' = [k \in 1..Len(call.genes.list) |-> <<>>]
            /\ UNCHANGED error
    /\ UNCHANGED <<call, cc, p_values, p_values_df, output_file, returned, worker, overtaken>>

\* A free worker takes the next task off the queue and unpickles it.
PoolTaskGet(w) ==
    /\ pc = "imap"
    /\ w <= call.processes
    /\ worker[w].task = 0
    /\ nextTask <= Len(genes)
    /\ worker' = [worker EXCEPT ![w] = [task |-> nextTask, x_genes |-> TaskXSet(w)]]
    /\ nextTask' = nextTask + 1
    /\ UNCHANGED <<call, pc, genes, cc, idx, p_values, p_values_df, output_file,
                   returned, error, results, overtaken>>

\* The worker runs run_logit / run_linear on its task and sends the row, or the
\* exception, back.
PoolTaskRun(w) ==
    /\ pc = "imap"
    /\ worker[w].task # 0
    /\ LET t == worker[w].task
       IN  /\ results' = [results EXCEPT ![t] =
                  RunRegression(call.fn, call.lib, call.covariates.list,
                                worker[w].x_genes, genes[t], call.flat)]
           /\ worker' = [worker EXCEPT ![w] =
                  [task |-> 0, x_genes |-> SetColumn(worker[w].x_genes, genes[t])]]
           /\ overtaken' = (overtaken \/ \E u \in 1..(t - 1) : results[u] = <<>>)
    /\ UNCHANGED <<call, pc, genes, cc, idx, p_values, p_values_df, output_file,
                   returned, error, nextTask>>

\* list(pool.imap(...)): the results are taken in the order of the tasks; a task's
\* exception is raised again here.
PoolCollect ==
    /\ pc = "imap"
    /\ idx <= Len(genes)
    /\ results[idx] # <<>>
    /\ IF results[idx] = <<Raises>>
       THEN /\ Abort("LibError")
            /\ UNCHANGED <<idx, p_values>>
       ELSE /\ p_values' = Append(p_values, results[idx])
            /\ idx' = idx + 1
            /\ UNCHANGED <<pc, error>>
    /\ UNCHANGED <<call, genes, cc, p_values_df, output_file, returned>>
    /\ UNCHANGED poolVars

\* The table of the rows (ValueError when a row does not fit the labels), sorted
\* by p_value, returned.
PoolFinish ==
    /\ pc = "imap"
    /\ idx > Len(genes)
    /\ IF DataFrameOk(p_values, PoolCols(call.fn, call.covariates.list))
       THEN /\ p_values_df' = SortValues(
                    DataFrame(p_values, PoolCols(call.fn, call.covariates.list)), "p_value")
            /\ returned' = p_values_df'
            /\ pc' = "done"
            /\ UNCHANGED error
       ELSE /\ Abort("ValueError")
            /\ UNCHANGED <<p_values_df, returned>>
    /\ UNCHANGED <<call, genes, cc, idx, p_values, output_file>>
    /\ UNCHANGED poolVars

\* ------------------------------------------------------ the engine's runs
Calls ==
    {MakeCall("find_pvalue", t, g, NoSplit, l, a, NoList, 1) :
        t \in TwoGroupTests, g \in GeneArgs, l \in Libs, a \in {None} \cup AdjMethods}
    \cup {MakeCall("find_pvalue", t, g, s, l, None, NoList, 1) :
        t \in TwoGroupTests, g \in GeneArgs, s \in Splits, l \in FewLibs}
    \cup {MakeCall("find_pvalue", t, Given(g), NoSplit, SomeLib, a, c, 1) :
        t \in RegressionTests, g \in {<<>>, AllColumns}, a \in {None, "bonferroni"},
        c \in CovArgs}
    \cup {MakeCall("find_pvalue", t, NoList, NoSplit, l, a, NoList, 1) :
        t \in {"linear", "betareg", "chi2"}, l \in FewLibs, a \in {None, "bonferroni"}}
    \cup {MakeCall(f, None, Given(g), s, l, None, NoList, 1) :
        f \in TwoGroupHelpers, g \in GeneLists, s \in Splits, l \in FewLibs}
    \cup {MakeCall(f, None, Given(g), NoSplit, l, None, Given(c), n) :
        f \in PoolHelpers, g \in GeneLists, l \in FewLibs,
        c \in {<<"PC1">>, <<"PC1", "PC2">>}, n \in Workers}
    \cup {OnFlat(MakeCall(f, None, Given(g), NoSplit, SomeLib, None, Given(c), n), flat) :
        f \in PoolHelpers, g \in GeneLists, c \in {<<>>, <<"PC1">>, <<"PC1", "PC2">>},
        n \in Workers, flat \in FlatColumns}

\* The engine is called as a library: there is no command line.
NoCommand ==
    /\ cmd = None
    /\ cpc = 0
    /\ calling = None
    /\ locals = None
    /\ trace = <<>>
    /\ exit_code = NoExit
    /\ fs = {}

Init ==
    /\ call \in Calls
    /\ pc = "start"
    /\ genes = <<>>
    /\ cc = <<>>
    /\ idx = 1
    /\ p_values = <<>>
    /\ p_values_df = NoTable
    /\ output_file = NoTable
    /\ returned = NoTable
    /\ error = None
    /\ nextTask = 1
    /\ worker = [w \in Workers |-> [task |-> 0, x_genes |-> <<>>]]
    /\ results = <<>>
    /\ overtaken = FALSE
    /\ NoCommand

\* A step of the engine; no command line is involved.
Engine(A) == A /\ UNCHANGED cliVars

Next ==
    \/ Engine(FindPvalueStart)
    \/ Engine(FindPvalueInvalidTest)
    \/ Engine(RunTwoGroupStart)
    \/ Engine(TwoGroupStep)
    \/ Engine(TwoGroupFinish)
    \/ Engine(RegressionStep)
    \/ Engine(RegressionFinish)
    \/ Engine(FindPvalueTail)
    \/ Engine(PoolStart)
    \/ \E w \in Workers : Engine(PoolTaskGet(w))
    \/ \E w \in Workers : Engine(PoolTaskRun(w))
    \/ Engine(PoolCollect)
    \/ Engine(PoolFinish)

vars == <<engineVars, cliVars>>

Spec == Init /\ [][Next]_vars

\* ================================================= the engine's properties
Terminal == pc \in {"done", "error"}
RequestedGenes == IF call.genes.given THEN call.genes.list ELSE AllColumns
RequestedAreColumns == \A k \in 1..Len(RequestedGenes) : RequestedGenes[k] \in Genes
SupportedCall ==
    \/ call.fn \in TwoGroupHelpers \cup PoolHelpers
    \/ call.fn = "find_pvalue" /\ call.test \in TwoGroupTests \cup RegressionTests
IsTwoGroupCall ==
    \/ call.fn \in TwoGroupHelpers
    \/ call.fn = "find_pvalue" /\ call.test \in TwoGroupTests

\* A group of the two-group split is missing from the merged table.
DegenerateSplit ==
    /\ IsTwoGroupCall
    /\ \/ Len(Categories(call.split)) < 2
       \/ \E k \in 1..2 : Categories(call.split)[k] \notin 1..call.split.ngroups

\* Testing gene g fails: the library raises, or the split is degenerate.
TestFails(g) == call.lib[g] = Raises \/ DegenerateSplit

GenesOf(df) == {df.rows[k][1] : k \in 1..Len(df.rows)}
PColumn(df) == Column(df, "p_value")

\* C1 (as claimed): a per-gene failure never aborts the run: whenever testing a
\* requested gene fails, the run still ends with a result table, which holds the
\* requested genes whose test did not fail and no other.
C1_FailedGeneSkippedRunGoesOn ==
    (/\ Terminal
     /\ SupportedCall
     /\ RequestedAreColumns
     /\ \E k \in 1..Len(RequestedGenes) : TestFails(RequestedGenes[k]))
    => /\ pc = "done"
       /\ GenesOf(returned) =
            {RequestedGenes[k] : k \in {j \in 1..Len(RequestedGenes) :
                                          ~TestFails(RequestedGenes[j])}}

\* a <= b on floats: false when either is NaN.
FloatLeq(a, b) == ~IsNaN(a) /\ ~IsNaN(b) /\ a <= b

\* C2 (as claimed): the returned and written table is sorted ascending by p_value:
\* of any two consecutive rows the earlier p_value is <= the later one.
C2_ConsecutiveRowsAscending ==
    pc = "done" =>
        /\ \A k \in 1..(Len(returned.rows) - 1) :
               FloatLeq(PColumn(returned)[k], PColumn(returned)[k + 1])
        /\ call.fn = "find_pvalue" => output_file.rows = returned.rows

\* C2 (amended): the returned and written table is sorted ascending by p_value with
\* the rows whose p_value is NaN last: of any two consecutive rows either the later
\* p_value is NaN, or both are numbers and the earlier is <= the later.
C2_AscendingNaNLast ==
    pc = "done" =>
        /\ returned.ok
        /\ \A k \in 1..(Len(returned.rows) - 1) :
               \/ IsNaN(PColumn(returned)[k + 1])
               \/ FloatLeq(PColumn(returned)[k], PColumn(returned)[k + 1])
        /\ call.fn = "find_pvalue" => output_file = returned

\* C2's case: a finished run whose rows were collected in another order than the
\* sorted one, a NaN p-value among them.
C2_Witness ==
    /\ pc = "done"
    /\ Len(returned.rows) >= 3
    /\ returned.rows # p_values
    /\ \E k \in 1..Len(returned.rows) : IsNaN(PColumn(returned)[k])
    /\ ~IsNaN(PColumn(returned)[2])

\* The row of gene g fitted on the covariates and g's score column alone.
OwnRow(g) == RunRegression(call.fn, call.lib, call.covariates.list, <<>>, g, call.flat)

\* C3: the pooled logit / linear backends end the same way for every pool size and
\* every completion order: with an error when some gene's fit raises, else with the
\* table of the genes' own rows (each fitted on the covariates and that gene's
\* score column alone) sorted by p_value.
C3_PoolOrderIrrelevant ==
    (Terminal /\ call.fn \in PoolHelpers /\ RequestedAreColumns) =>
        IF \E k \in 1..Len(RequestedGenes) : call.lib[RequestedGenes[k]] = Raises
        THEN pc = "error"
        ELSE /\ pc = "done"
             /\ returned = SortValues(
                    DataFrame([k \in 1..Len(RequestedGenes) |-> OwnRow(RequestedGenes[k])],
                              PoolCols(call.fn, call.covariates.list)),
                    "p_value")

\* C3's case: two workers, a task that completed before an earlier one, and a table
\* whose row order differs from the order of the tasks.
C3_Witness ==
    /\ pc = "done"
    /\ call.fn \in PoolHelpers
    /\ call.processes = 2
    /\ overtaken
    /\ Len(returned.rows) >= 2
    /\ returned.rows # p_values

InvalidSelector ==
    call.fn = "find_pvalue" /\ call.test \notin TwoGroupTests \cup RegressionTests

\* C4: find_pvalue with a test selector outside the supported set ends with an
\* error; no output file is written and no table is returned.
C4_InvalidSelectorFails ==
    InvalidSelector =>
        /\ pc # "done"
        /\ output_file = NoTable
        /\ returned = NoTable
        /\ pc = "error" => error = "Exception"
        /\ pc \in {"start", "invalid", "error"}

\* C4's case: the call with an unrecognized selector has ended.
C4_Witness == InvalidSelector /\ pc = "error" /\ call.adj_pval # None

BaseCols == IF call.test \in TwoGroupTests THEN TwoGroupCols ELSE RegressionCols
AdjColumn(df) == Column(df, call.adj_pval \o "_adj_pval")

\* C5: with an adjustment method the result has exactly one more column, named
\* <method>_adj_pval, whose value in each row is the adjusted value of that row's
\* p_value over the whole sorted p-value vector (bonferroni: min(1, p * rows), so
\* [0.01, 0.02, 0.5] gives [0.03, 0.06, 1.0]; holm: never below the p_value, never
\* decreasing down the table, p * rows in the first row); without a method there
\* is no adjusted column.
C5_AdjustedColumn ==
    (pc = "done" /\ call.fn = "find_pvalue") =>
        LET n == Len(returned.rows)
            p == PColumn(returned)
        IN  IF call.adj_pval = None
            THEN returned.cols = BaseCols
            ELSE /\ returned.cols = Append(BaseCols, call.adj_pval \o "_adj_pval")
                 /\ \A k \in 1..n : Len(returned.rows[k]) = Len(returned.cols)
                 /\ \A k \in 1..n : IsNaN(p[k]) <=> IsNaN(AdjColumn(returned)[k])
                 /\ call.adj_pval = "bonferroni" =>
                        /\ \A k \in 1..n :
                               ~IsNaN(p[k]) =>
                                   AdjColumn(returned)[k] = Min(PScale, p[k] * n)
                        /\ p = <<1, 2, PScale \div 2>> =>
                               AdjColumn(returned) = <<3, 6, PScale>>
                 /\ call.adj_pval = "holm" =>
                        /\ \A k \in 1..n :
                               ~IsNaN(p[k]) =>
                                   /\ AdjColumn(returned)[k] >= p[k]
                                   /\ AdjColumn(returned)[k] <= PScale
                        /\ \A k \in 1..(n - 1) :
                               ~IsNaN(p[k + 1]) =>
                                   AdjColumn(returned)[k] <= AdjColumn(returned)[k + 1]
                        /\ (n > 0 /\ ~IsNaN(p[1])) =>
                               AdjColumn(returned)[1] = Min(PScale, p[1] * n)

\* C5's case: bonferroni over the p-values 0.01, 0.02 and 0.5.
C5_Witness ==
    /\ pc = "done"
    /\ call.fn = "find_pvalue"
    /\ call.adj_pval = "bonferroni"
    /\ PColumn(returned) = <<1, 2, PScale \div 2>>
    /\ AdjColumn(returned) = <<3, 6, PScale>>

\* ======================================================= the command layer
\* A command line is the program, the command, the options given (by the name
\* of the callback's parameter) and the value of each choice-typed option given.
\* Only the options that decide something are told apart: the required ones,
\* the choice-typed ones and the ones the body branches on.

\* --------------------------------------------------------------- bounds
MaxReturnCode == 1
MaxColumn == 2

Bogus == "bogus"

Programs == {"genrisk", "cogenassess"}

CommandNames(prog) ==
    IF prog = "genrisk"
    THEN {"score-genes", "find-association", "visualize", "create-model",
          "test-model", "get-prs"}
    ELSE {"score-genes", "run-plink", "calculate-pval", "merge", "normalize",
          "calc-corr", "visualize", "merge-files"}

\* The options declared with required=True.
Required(prog, name) ==
    IF prog = "genrisk"
    THEN CASE name = "score-genes" -> {"annotated_vcf", "temp_dir", "output_file"}
           [] name = "find-association" ->
                  {"scores_file", "info_file", "output_path", "test",
                   "cases_column", "samples_column"}
           [] name = "visualize" -> {"pvals_file"}
           [] name = "create-model" ->
                  {"data_file", "output_folder", "model_name", "model_type",
                   "target_col"}
           [] name = "test-model" ->
                  {"model_type", "input_file", "label_col", "model_path"}
           [] OTHER -> {}
    ELSE CASE name = "score-genes" ->
                  {"annotated_file", "bed", "bim", "fam", "temp_dir", "output_file"}
           [] name = "run-plink" -> {"bed", "bim", "fam", "genes_folder"}
           [] name = "calculate-pval" ->
                  {"scores_file", "genotype_file", "output_path", "test",
                   "cases_column", "samples_column"}
           [] name = "merge" -> {"input_path", "output_path"}
           [] name = "normalize" -> {"matrix_file", "output_path"}
           [] name = "calc-corr" -> {"first_file", "second_file", "output_file"}
           [] name = "visualize" ->
                  {"pvals_file", "info_file", "qq_output", "manhattan_output"}
           [] OTHER -> {"input_dir", "output_file", "samples_col", "extension"}

\* The options that are not required and that the body branches on.
Optional(prog, name) ==
    IF prog = "genrisk"
    THEN CASE name = "score-genes" -> {"weight_func"}
           [] name = "find-association" -> {"adj_pval"}
           [] name = "visualize" -> {"info_file", "qq_output", "manhattan_output"}
           [] name = "create-model" -> {"test", "metric"}
           [] name = "test-model" -> {"output_file"}
           [] OTHER -> {}
    ELSE CASE name = "score-genes" -> {"weight_func", "remove_temp"}
           [] name = "calculate-pval" -> {"adj_pval"}
           [] name = "merge" -> {"remove_input"}
           [] name = "normalize" -> {"genes_lengths_file"}
           [] OTHER -> {}

AdjPvalChoice ==
    {"bonferroni", "sidak", "holm-sidak", "holm", "simes-hochberg", "hommel",
     "fdr_bh", "fdr_by", "fdr_tsbh", "fdr_tsbky"}

\* The options typed click.Choice, each with its enumerated set.
ChoiceOptions(prog, name) ==
    CASE name = "score-genes" -> {"weight_func"}
      [] name \in {"find-association", "calculate-pval"} -> {"test", "adj_pval"}
      [] name \in {"create-model", "test-model"} -> {"model_type"}
      [] name = "merge-files" -> {"extension"}
      [] OTHER -> {}

Choice(prog, name, opt) ==
    CASE opt = "weight_func" -> {"beta", "log10"}
      [] opt = "test" ->
             IF prog = "genrisk"
             THEN {"ttest_ind", "mannwhitneyu", "logit", "glm", "betareg", "linear"}
             ELSE {"ttest_ind", "mannwhitneyu", "logit", "glm", "betareg"}
      [] opt = "adj_pval" -> AdjPvalChoice
      [] opt = "model_type" -> {"regressor", "classifier"}
      [] OTHER -> {"pickle", "feather", "tsv"}

\* The values tried for a choice-typed option: some of its set, one of the
\* other program's set, and one of neither.
Tried(opt) ==
    CASE opt = "weight_func" -> {"beta", Bogus}
      [] opt = "test" -> {"mannwhitneyu", "logit", "betareg", "linear", Bogus}
      [] opt = "adj_pval" -> {"bonferroni", Bogus}
      [] opt = "model_type" -> {"regressor", "classifier", Bogus}
      [] OTHER -> {"pickle", "tsv", Bogus}

\* The directory a command may remove or make, and whether it may be there first.
Directory(name) ==
    CASE name = "score-genes" -> "temp_dir"
      [] name = "merge" -> "input_path"
      [] name = "create-model" -> "output_folder"
      [] OTHER -> None

FirstFs(name) == IF Directory(name) = None THEN {{}} ELSE {{}, {Directory(name)}}

ChoiceValues(prog, name, given) ==
    LET D == ChoiceOptions(prog, name) \cap given
    IN  {f \in [D -> UNION {Tried(o) : o \in D}] : \A o \in D : f[o] \in Tried(o)}

LinesOf(prog, name) ==
    UNION {{[prog |-> prog, name |-> name, given |-> given, choice |-> choice,
             fs0 |-> fs0] :
                choice \in ChoiceValues(prog, name, given), fs0 \in FirstFs(name)} :
           given \in SUBSET (Required(prog, name) \cup Optional(prog, name))}

CommandLines ==
    UNION {UNION {LinesOf(prog, name) : name \in CommandNames(prog)} : prog \in Programs}

\* ------------------------------------------------------------ click's parser
\* click checks every parameter before it invokes the callback: a required
\* option that is absent is a MissingParameter, a choice-typed option whose value
\* is outside its set is a BadParameter; both are usage errors, exit status 2.
MissingRequired(c) == Required(c.prog, c.name) \ c.given

BadChoices(c) ==
    {o \in DOMAIN c.choice : c.choice[o] \notin Choice(c.prog, c.name, o)}

\* The mutant of UsageError: a parser that does not validate the choices.
UsageErrorChoicesUnchecked(c) == MissingRequired(c) # {}

UsageError(c) == MissingRequired(c) # {} \/ BadChoices(c) # {}

UsageExit == 1 + 1
ExceptionExit == 1

\* ------------------------------------------------- the functions' signatures
\* The keyword-only parameters of the functions of pipeline.py, and the ones
\* among them that have no default.  A call whose keywords are not among the
\* parameters, or that leaves out a parameter without default, is a TypeError.
InPipeline == {"find_pvalue", "betareg_pvalues", "r_visualize", "create_prediction_model"}

Params(fn) ==
    CASE fn = "find_pvalue" ->
             {"scores_df", "genotype_file", "output_file", "genes", "cases_column",
              "samples_column", "test", "adj_pval", "covariates", "cases", "controls"}
      [] fn = "betareg_pvalues" ->
             {"scores_file", "pheno_file", "samples_col", "cases_col", "nprocesses",
              "output_path", "covariates"}
      [] fn = "r_visualize" ->
             {"genescol_1", "genescol_2", "info_file", "pvals_file", "qq_output",
              "manhattan_output", "pvalcol"}
      [] OTHER ->
             {"model_name", "model_type", "y_col", "imbalanced", "normalize", "folds",
              "training_set", "testing_set", "test_size", "metric"}

NoDefault(fn) ==
    CASE fn = "find_pvalue" ->
             {"scores_df", "genotype_file", "output_file", "cases_column",
              "samples_column", "adj_pval"}
      [] fn = "betareg_pvalues" ->
             {"scores_file", "pheno_file", "samples_col", "cases_col", "output_path",
              "covariates"}
      [] fn = "r_visualize" -> Params("r_visualize")
      [] OTHER -> {"y_col", "training_set"}

\* The functions imported from modules that are not at hand (utils, pandas,
\* os, ...) take what they are given.
Binds(fn, kw) == fn \in InPipeline => (kw \subseteq Params(fn) /\ NoDefault(fn) \subseteq kw)

\* The functions that run an R script, and the flags they pass to it.
RscriptFns == {"betareg_pvalues", "r_visualize"}

RscriptArgs(fn) ==
    IF fn = "betareg_pvalues"
    THEN {"-s", "--phenofile", "--samplescol", "--casescol", "--nprocesses", "-o",
          "--covariates"}
    ELSE {"-p", "-i", "--qq_output", "--manhattan_output", "--genescol_1",
          "--genescol_2", "--pvalcol"}

\* ------------------------------------------------------ the commands' bodies
\* The body of a callback is the sequence of its statements that run under the
\* options given and the local variables: a message, a yes/no question, a
\* question, a call, a shell command, a directory removal, a raise, a return.
St(op, name, kw, arg) == [op |-> op, name |-> name, kw |-> kw, arg |-> arg]
Echo(text) == St("echo", text, {}, None)
Confirm(text, local) == St("confirm", text, {}, local)
Prompt(text, local) == St("prompt", text, {}, local)
CallOf(fn, kw) == St("call", fn, kw, None)
Shell(program) == St("subprocess", program, {}, None)
Rmtree(path) == St("rmtree", "shutil.rmtree", {}, path)
Raise(text) == St("raise", text, {}, None)
Return == St("return", None, {}, None)
When(cond, stmts) == IF cond THEN stmts ELSE <<>>
\* var = module.fn(input, option): a call into a pycaret experiment.
Step(module, fn, var, input, option) == St("step", fn, {}, <<module, var, input, option>>)
\* The value a function of pipeline.py hands back.
Result(value, metrics) == St("result", value, {}, metrics)

NoLocals ==
    [confirm |-> FALSE, download |-> FALSE, rc |-> 0, genes_folder |-> None,
     pgs_id |-> None, pgs_file |-> None, id_col |-> None, allele |-> None,
     weight |-> None, file_type |-> None, input_file |-> None, output_file |-> None]

\* The mutant of RemoveRequested: the directory is removed whatever was said.
RemoveRequestedAlways(c, loc) == TRUE

\* Whether the directory is to be removed: the operator's answer in genrisk,
\* the flag in cogenassess.
RemoveRequested(c, loc) ==
    CASE c.name = "merge" -> "remove_input" \in c.given
      [] c.prog = "genrisk" -> loc.confirm
      [] OTHER -> "remove_temp" \in c.given

GetGeneInfoKw(prog) ==
    {IF prog = "genrisk" THEN "annotated_vcf" ELSE "annotated_file", "output_dir",
     "beta_param", "weight_func", "del_col", "maf_threshold", "genes_col",
     "variant_col", "af_col", "alt_col"}

PlinkProcessKw(prog) ==
    IF prog = "genrisk"
    THEN {"genes_folder", "plink", "annotated_vcf", "bfiles"}
    ELSE {"genes_folder", "plink", "bed", "bim", "fam"}

\* The mutant of Stages: the matrix is assembled before the genotypes are scored.
StagesAssemblyFirst(prog) ==
    <<Echo("getting information from vcf files"),
      CallOf("get_gene_info", GetGeneInfoKw(prog)),
      Echo("combining score files ..."),
      CallOf("combine_scores", {"input_path", "output_path"}),
      Echo("calculating gene scores ..."),
      CallOf("plink_process", PlinkProcessKw(prog))>>

\* The three stages of score_genes, in the order of the code.
Stages(prog) ==
    <<Echo("getting information from vcf files"),
      CallOf("get_gene_info", GetGeneInfoKw(prog)),
      Echo("calculating gene scores ..."),
      CallOf("plink_process", PlinkProcessKw(prog)),
      Echo("combining score files ..."),
      CallOf("combine_scores", {"input_path", "output_path"})>>

ScoreGenesBody(c, loc) ==
    When(c.prog = "genrisk",
         <<Confirm("Would you like us to delete the temporary files when process is done?",
                   "confirm")>>)
    \o Stages(c.prog)
    \o When(RemoveRequested(c, loc), <<Rmtree("temp_dir")>>)
    \o <<Echo("process is complete."), Return>>

RunPlinkBody ==
    <<Echo("staring plink processing ..."),
      CallOf("plink_process", PlinkProcessKw("cogenassess")),
      Echo("plink processing is complete.")>>

FindAssociationBody(c) ==
    IF c.choice["test"] = "betareg"
    THEN <<CallOf("betareg_pvalues",
                  {"scores_file", "pheno_file", "cases_col", "samples_col",
                   "output_path", "covariates", "processes"})>>
    ELSE <<Echo("The process for calculating the p_values will start now."),
           CallOf("find_pvalue",
                  {"scores_file", "output_file", "info_file", "genes", "cases_column",
                   "samples_column", "test", "adj_pval", "covariates", "processes"}),
           Echo("Process is complete."),
           Echo("df.info()")>>

CalculatePvalBody(c) ==
    IF c.choice["test"] = "betareg"
    THEN <<CallOf("betareg_pvalues",
                  {"scores_file", "pheno_file", "cases_col", "samples_col",
                   "output_path", "covariates"})>>
    ELSE <<CallOf("pd.read_csv", {"sep"}),
           Echo("The process for calculating the p_values will start now."),
           CallOf("find_pvalue",
                  {"scores_df", "output_file", "genotype_file", "genes", "cases_column",
                   "samples_column", "test", "pc_file", "adj_pval"}),
           Echo("Process is complete."),
           Echo("df.info()")>>

MergeBody(c, loc) ==
    <<Echo("Starting the merging process"),
      CallOf("combine_scores", {"input_path", "output_path"}),
      Echo("df.info()")>>
    \o When(RemoveRequested(c, loc), <<Rmtree("input_path")>>)
    \o <<Echo("Merging is done.")>>

NormalizeBody ==
    <<Echo("Normalization in process."),
      CallOf("normalize_gene_len",
             {"matrix_file", "genes_lengths_file", "output_path", "samples_col"})>>

CalcCorrBody ==
    <<CallOf("open", {}), CallOf("open", {}),
      CallOf("pd.read_csv", {"sep", "index_col"}),
      CallOf("pd.read_csv", {"sep", "index_col"}),
      CallOf("pearsonr", {}),
      CallOf("to_csv", {"sep", "index"}),
      Echo("Process is complete."),
      Echo("corr_df.info()")>>

RVisualizeBody ==
    <<CallOf("r_visualize",
             {"pvals_file", "info_file", "genescol_1", "genescol_2", "qq_output",
              "manhattan_output", "pvalcol"})>>

MergeFilesBody(c) ==
    <<CallOf("merge_files_fun", {"input_dir", "samples_col"}),
      CallOf(CASE c.choice["extension"] = "pickle" -> "to_pickle"
               [] c.choice["extension"] = "feather" -> "to_feather"
               [] OTHER -> "to_csv", {}),
      Return>>

\* The mutant of VisualizeBody: the info file is not asked for.
VisualizeBodyInfoUnchecked(c) ==
    <<CallOf("pd.read_csv", {"sep", "index_col"})>>
    \o When("qq_output" \in c.given, <<CallOf("draw_qqplot", {"pvals", "qq_output"})>>)
    \o When("manhattan_output" \in c.given,
            <<CallOf("pd.read_csv", {"sep", "index_col"}),
              CallOf("pd.merge", {"left_on", "right_on", "how"}),
              CallOf("draw_manhattan",
                     {"data", "chr_col", "pos_col", "pvals_col", "genes_col",
                      "manhattan_output"})>>)

VisualizeBody(c) ==
    <<CallOf("pd.read_csv", {"sep", "index_col"})>>
    \o When("qq_output" \in c.given, <<CallOf("draw_qqplot", {"pvals", "qq_output"})>>)
    \o When("manhattan_output" \in c.given,
            IF "info_file" \notin c.given
            THEN <<Raise("Please provide a file with gene information to generate manhattan plot.")>>
            ELSE <<CallOf("pd.read_csv", {"sep", "index_col"}),
                   CallOf("pd.merge", {"left_on", "right_on", "how"}),
                   CallOf("draw_manhattan",
                          {"data", "chr_col", "pos_col", "pvals_col", "genes_col",
                           "manhattan_output"})>>)

\* ------------------------------------------------ create_prediction_model
NoIndexError == "AttributeError: 'NoneType' object has no attribute 'index'"
NotIterableError == "TypeError: 'NoneType' object is not iterable"
ModelKindError ==
    "Exception('Model requested is not available. Please choose regressor or classifier.')"

\* The held-out table: not passed (None), without rows, with rows.
TestingSets == {"absent", "empty", "rows"}

\* if len(testing_set.index) != 0: predict and measure.
Holdout(module, testing_set, first, second) ==
    CASE testing_set = "absent" -> <<Raise(NoIndexError)>>
      [] testing_set = "rows" ->
             <<Step(module, "predict_model", "unseen_predictions", "final_model", None),
               Step("pycaret.utils", "check_metric", None, "unseen_predictions", first),
               Step("pycaret.utils", "check_metric", None, "unseen_predictions", second)>>
      [] OTHER -> <<>>

MetricsOf(testing_set) == IF testing_set = "rows" THEN "holdout metrics" ELSE None

RegressorBody(metric, testing_set) ==
    LET m == IF metric = None THEN "RMSE" ELSE metric
    IN  <<Step("pyreg", "setup", "setup", "training_set", None),
          Step("pyreg", "compare_models", "best_model", None, m),
          Step("pyreg", "create_model", "reg_model", "best_model", None),
          Step("pyreg", "tune_model", "reg_tuned_model", "reg_model", m),
          Step("pyreg", "plot_model", None, "reg_tuned_model", None),
          Step("pyreg", "plot_model", None, "reg_tuned_model", "feature"),
          Step("pyreg", "plot_model", None, "reg_tuned_model", "error"),
          Step("pyreg", "finalize_model", "final_model", "reg_tuned_model", None)>>
        \o Holdout("pyreg", testing_set, "R2", "RMSE")
        \o <<Step("pyreg", "save_model", None, "final_model", "model_name"),
             Step("pyreg", "pull().to_csv", None, None, "model_name_evaluation.tsv"),
             Step("pyreg", "get_logs().to_csv", None, None, "model_name_logs.logs"),
             CallOf("open", {}),
             CallOf("f.writelines", {})>>
        \o (IF testing_set = "rows"
            THEN <<CallOf("f.writelines", {})>>
            ELSE <<Raise(NotIterableError)>>)
        \o <<Result("metrics, final_model", MetricsOf(testing_set))>>

ClassifierBody(metric, testing_set) ==
    LET m == IF metric = None THEN "AUC" ELSE metric
    IN  <<Step("cl", "setup", "setup", "training_set", None),
          Step("cl", "compare_models", "best_model", None, m),
          Step("cl", "create_model", "cl_model", "best_model", None),
          Step("pyreg", "tune_model", "cl_tuned_model", "cl_model", m),
          Step("cl", "plot_model", None, "cl_tuned_model", "pr"),
          Step("cl", "plot_model", None, "cl_tuned_model", "confusion_matrix"),
          Step("cl", "plot_model", None, "cl_tuned_model", "feature"),
          Step("cl", "finalize_model", "final_model", "cl_tuned_model", None)>>
        \o Holdout("cl", testing_set, "AUC", "Accuracy")
        \o <<Step("cl", "save_model", None, "final_model", "model_name"),
             Step("cl", "pull().to_csv", None, None, "model_name_evaluation.tsv"),
             Step("cl", "get_logs().to_csv", None, None, "model_name_logs.logs"),
             Result("metrics, final_model", MetricsOf(testing_set))>>

\* The mutant of PredictionModelBody: any other kind is taken as a regressor.
PredictionModelBodyRegressorElse(model_type, metric, testing_set) ==
    IF model_type = "classifier"
    THEN ClassifierBody(metric, testing_set)
    ELSE RegressorBody(metric, testing_set)

PredictionModelBody(model_type, metric, testing_set) ==
    CASE model_type = "regressor" -> RegressorBody(metric, testing_set)
      [] model_type = "classifier" -> ClassifierBody(metric, testing_set)
      [] OTHER -> <<Result(ModelKindError, None)>>

\* create_prediction_model called as a library function.
LibraryCalls ==
    {[prog |-> "pipeline", name |-> "create_prediction_model", given |-> {},
      choice |-> [model_type |-> k, metric |-> m, testing_set |-> t], fs0 |-> {}] :
         k \in {"regressor", "classifier", Bogus}, m \in {None, "MAE"}, t \in TestingSets}

CreateModelBody(c) ==
    <<CallOf("pd.read_csv", {"sep", "index_col"})>>
    \o When("test" \in c.given, <<CallOf("train_test_split", {"test_size"})>>)
    \o <<CallOf("os.mkdir", {}),
         CallOf("os.chdir", {})>>
    \o PredictionModelBody(c.choice["model_type"],
                           IF "metric" \in c.given THEN "MAE" ELSE None,
                           IF "test" \in c.given THEN "rows" ELSE "empty")
    \o <<Return>>

TestModelBody ==
    <<CallOf("model_testing",
             {"model_path", "input_file", "label_col", "samples_col", "model_type"}),
      CallOf("to_csv", {"sep"}),
      Return>>

ColumnPrompts ==
    <<Prompt("Please provide the ID column number", "id_col"),
      Prompt("Please provide the effect allele column number", "allele"),
      Prompt("Please provide the effect weight column number", "weight")>>

CompatibilityQuestion ==
    "Please be aware that variant ID in both input file and pgs file need to match.Do you want to continue?"
OutputQuestion == "Please provide an output file path"
CompleteMessage == "Process is complete. Have a nice day!"

\* The mutant of Scoring: the scores are calculated whatever the operator said.
ScoringRegardless(loc) == <<Prompt(OutputQuestion, "output_file"), Shell("plink")>>

\* get_prs after the compatibility question.
Scoring(loc) ==
    IF loc.confirm
    THEN <<Prompt(OutputQuestion, "output_file"), Shell("plink")>>
    ELSE <<Echo("Ok. You still have the PGS file (if downloaded) but the scores were not calculated.")>>

GetPrsBody(loc) ==
    <<Confirm("Do you want to download PGS file?", "download")>>
    \o (IF loc.download
        THEN <<Prompt("Please input PGS ID", "pgs_id"),
               CallOf("download_pgs", {"prs_id"}),
               Shell("zcat")>>
             \o When(loc.rc # 0,
                     <<Echo("The PGS file could not be viewed using cmd, please view it manually.")>>)
             \o <<Echo("Please check the PGS file viewed and provide us with the needed columns.")>>
        ELSE <<Prompt("Please provide path to PGS file", "pgs_file")>>)
    \o ColumnPrompts
    \o <<Prompt("Do you have a VCF file or binary files?", "file_type"),
         Prompt("Please provide the path to input file", "input_file"),
         Confirm(CompatibilityQuestion, "confirm")>>
    \o Scoring(loc)
    \o <<Echo(CompleteMessage)>>

Body(c, loc) ==
    CASE c.name = "score-genes" -> ScoreGenesBody(c, loc)
      [] c.name = "find-association" -> FindAssociationBody(c)
      [] c.name = "calculate-pval" -> CalculatePvalBody(c)
      [] c.name = "merge" -> MergeBody(c, loc)
      [] c.name = "run-plink" -> RunPlinkBody
      [] c.name = "normalize" -> NormalizeBody
      [] c.name = "calc-corr" -> CalcCorrBody
      [] c.name = "merge-files" -> MergeFilesBody(c)
      [] c.name = "create-model" -> CreateModelBody(c)
      [] c.name = "create_prediction_model" ->
             PredictionModelBody(c.choice["model_type"], c.choice["metric"],
                                 c.choice["testing_set"])
      [] c.name = "test-model" -> TestModelBody
      [] c.name = "get-prs" -> GetPrsBody(loc)
      [] c.prog = "genrisk" -> VisualizeBody(c)
      [] OTHER -> RVisualizeBody

\* ------------------------------------------------------ what the calls do
\* The folder get_gene_info hands back: the output directory or one inside it.
GeneFolders == {"temp_dir", "temp_dir/genes"}

Returned(fn) ==
    CASE fn = "get_gene_info" -> GeneFolders
      [] fn = "download_pgs" -> {"pgs_file"}
      [] OTHER -> {None}

\* The local variable a call's result is assigned to.
BoundTo(fn) ==
    CASE fn = "get_gene_info" -> "genes_folder"
      [] fn = "download_pgs" -> "pgs_file"
      [] OTHER -> None

\* What the operator may answer to a question.
Answers(local) ==
    CASE local \in {"id_col", "allele", "weight"} -> {ToString(k) : k \in 1..MaxColumn}
      [] local = "file_type" -> {"vcf", "bfile"}
      [] local = "pgs_id" -> {"PGS000001"}
      [] local = "pgs_file" -> {"local.pgs"}
      [] local = "input_file" -> {"input"}
      [] OTHER -> {"output"}

\* The mutant of ScoreCommand: the input is always passed as a VCF.
ScoreCommandAlwaysVcf(plink, loc) ==
    <<plink, "--vcf", loc.input_file, "--score", loc.pgs_file,
      loc.id_col, loc.allele, loc.weight, "sum", "--out", loc.output_file>>

\* get_prs: the command line of the genotype-scoring executable.
ScoreCommand(plink, loc) ==
    <<plink, IF loc.file_type = "vcf" THEN "--vcf" ELSE "--bfile", loc.input_file,
      "--score", loc.pgs_file, loc.id_col, loc.allele, loc.weight, "sum",
      "--out", loc.output_file>>

ShellCommand(program, loc) ==
    IF program = "plink"
    THEN ScoreCommand("plink", loc)
    ELSE <<"zcat", loc.pgs_file, "|", "head", "-n", "15">>

\* The directories and files a call leaves behind when it returns.
Effect(c, fn) ==
    CASE fn = "get_gene_info" -> {"temp_dir", "temp_dir/genes"}
      [] fn = "plink_process" ->
             IF c.name = "score-genes" THEN {"temp_dir/scores"} ELSE {"genes_folder/scores"}
      [] fn \in {"combine_scores", "normalize_gene_len", "to_pickle", "to_feather"} ->
             {"output"}
      [] fn = "to_csv" ->
             IF c.name = "test-model" /\ "output_file" \notin c.given THEN {} ELSE {"output"}
      [] fn = "os.mkdir" -> {"output_folder"}
      [] fn = "save_model" -> {"model_name.pkl"}
      [] fn = "plot_model" -> {"plots"}
      [] fn = "pull().to_csv" -> {"model_name_evaluation.tsv"}
      [] fn = "get_logs().to_csv" -> {"model_name_logs.logs"}
      [] fn = "open" -> IF c.name \in {"create-model", "create_prediction_model"}
                        THEN {"model_name.log"} ELSE {}
      [] fn = "draw_qqplot" -> {"qq_output"}
      [] fn = "draw_manhattan" -> {"manhattan_output"}
      [] fn = "download_pgs" -> {"pgs_file"}
      [] OTHER -> {}

\* What an R script that exits with status 0 has written.
RscriptEffect(fn) ==
    IF fn = "betareg_pvalues" THEN {"output"} ELSE {"qq_output", "manhattan_output"}

\* What is inside a directory, the directory included.
Under(dir) ==
    IF dir = "temp_dir" THEN {"temp_dir", "temp_dir/genes", "temp_dir/scores"} ELSE {dir}

\* The argument a call is given that a later claim looks at: the per-gene
\* folder of plink_process.
ArgumentOf(c, loc, fn) ==
    CASE fn = "plink_process" /\ c.name = "score-genes" -> loc.genes_folder
      [] fn = "plink_process" -> "genes_folder"
      [] OTHER -> None

Event(ev, name, kw, val, rc) == [ev |-> ev, name |-> name, kw |-> kw, val |-> val, rc |-> rc]

\* ------------------------------------------------------------ the actions
Stmt == Body(cmd, locals)[cpc]

Running == exit_code = NoExit /\ cpc >= 1

At(op) ==
    /\ Running
    /\ calling = None
    /\ cpc \in 1..Len(Body(cmd, locals))
    /\ Stmt.op = op

Fails(event) ==
    /\ trace' = Append(trace, event)
    /\ exit_code' = ExceptionExit
    /\ UNCHANGED <<cmd, cpc, calling, locals>>

\* click: a usage error ends the process before the callback is invoked.
ParseUsageError ==
    /\ cpc = 0
    /\ exit_code = NoExit
    /\ UsageError(cmd)
    /\ exit_code' = UsageExit
    /\ UNCHANGED <<cmd, cpc, calling, locals, trace, fs>>

ParseInvoke ==
    /\ cpc = 0
    /\ exit_code = NoExit
    /\ ~UsageError(cmd)
    /\ cpc' = 1
    /\ UNCHANGED <<cmd, calling, locals, trace, exit_code, fs>>

DoEcho ==
    /\ At("echo")
    /\ trace' = Append(trace, Event("echo", Stmt.name, {}, None, 0))
    /\ cpc' = cpc + 1
    /\ UNCHANGED <<cmd, calling, locals, exit_code, fs>>

DoConfirm ==
    /\ At("confirm")
    /\ \E answer \in BOOLEAN :
           /\ locals' = [locals EXCEPT ![Stmt.arg] = answer]
           /\ trace' = Append(trace, Event("prompt", Stmt.name, {},
                                           IF answer THEN "yes" ELSE "no", 0))
    /\ cpc' = cpc + 1
    /\ UNCHANGED <<cmd, calling, exit_code, fs>>

DoPrompt ==
    /\ At("prompt")
    /\ \E answer \in Answers(Stmt.arg) :
           /\ locals' = [locals EXCEPT ![Stmt.arg] = answer]
           /\ trace' = Append(trace, Event("prompt", Stmt.name, {}, answer, 0))
    /\ cpc' = cpc + 1
    /\ UNCHANGED <<cmd, calling, exit_code, fs>>

\* The operator closes the input at a question: click.Abort.
PromptAbort ==
    /\ At("confirm") \/ At("prompt")
    /\ Fails(Event("prompt", Stmt.name, {}, "Abort", 0))
    /\ UNCHANGED fs

\* The keywords of the call do not fit the function's parameters.
CallTypeError ==
    /\ At("call")
    /\ ~Binds(Stmt.name, Stmt.kw)
    /\ Fails(Event("TypeError", Stmt.name, Stmt.kw, None, 0))
    /\ UNCHANGED fs

CallStart ==
    /\ At("call")
    /\ Binds(Stmt.name, Stmt.kw)
    /\ calling' = Stmt.name
    /\ trace' = Append(trace, Event("call", Stmt.name, Stmt.kw,
                                    ArgumentOf(cmd, locals, Stmt.name), 0))
    /\ UNCHANGED <<cmd, cpc, locals, exit_code, fs>>

\* A call into a pycaret experiment starts.
StepStart ==
    /\ At("step")
    /\ calling' = Stmt.name
    /\ trace' = Append(trace, Event("call", Stmt.name, Stmt.kw, Stmt.arg, 0))
    /\ UNCHANGED <<cmd, cpc, locals, exit_code, fs>>

\* return metrics, final_model / return Exception(...)
DoResult ==
    /\ At("result")
    /\ trace' = Append(trace, Event("result", Stmt.name, {}, Stmt.arg, 0))
    /\ cpc' = cpc + 1
    /\ UNCHANGED <<cmd, calling, locals, exit_code, fs>>

\* betareg_pvalues, r_visualize: subprocess.call / subprocess.run of Rscript;
\* the status the script exits with is not looked at.
RscriptRun ==
    /\ Running
    /\ calling \in RscriptFns
    /\ trace[Len(trace)].ev = "call"
    /\ \E rc \in 0..MaxReturnCode :
           /\ trace' = Append(trace, Event("Rscript", calling, RscriptArgs(calling), None, rc))
           /\ fs' = IF rc = 0 THEN fs \cup RscriptEffect(calling) ELSE fs
    /\ UNCHANGED <<cmd, cpc, calling, locals, exit_code>>

CallReturn ==
    /\ Running
    /\ calling # None
    /\ calling \in RscriptFns => trace[Len(trace)].ev = "Rscript"
    /\ ~(calling = "os.mkdir" /\ "output_folder" \in fs)
    /\ \E val \in Returned(calling) :
           /\ trace' = Append(trace, Event("return", calling, {}, val, 0))
           /\ locals' = IF BoundTo(calling) # None
                        THEN [locals EXCEPT ![BoundTo(calling)] = val]
                        ELSE locals
    /\ fs' = fs \cup Effect(cmd, calling)
    /\ calling' = None
    /\ cpc' = cpc + 1
    /\ UNCHANGED <<cmd, exit_code>>

\* The called function raises; what it had written by then stays.
CallRaise ==
    /\ Running
    /\ calling # None
    /\ calling \in RscriptFns => trace[Len(trace)].ev = "call"
    /\ trace' = Append(trace, Event("raise", calling, {}, None, 0))
    /\ exit_code' = ExceptionExit
    /\ \E written \in SUBSET Effect(cmd, calling) : fs' = fs \cup written
    /\ UNCHANGED <<cmd, cpc, calling, locals>>

\* get_prs: a shell command whose status is kept only for the preview.
DoSubprocess ==
    /\ At("subprocess")
    /\ \E rc \in 0..MaxReturnCode :
           /\ trace' = Append(trace, Event("subprocess", Stmt.name, {},
                                           ShellCommand(Stmt.name, locals), rc))
           /\ locals' = IF Stmt.name = "zcat" THEN [locals EXCEPT !.rc = rc] ELSE locals
           /\ fs' = IF Stmt.name = "plink" /\ rc = 0 THEN fs \cup {"output"} ELSE fs
    /\ cpc' = cpc + 1
    /\ UNCHANGED <<cmd, calling, exit_code>>

DoRmtree ==
    /\ At("rmtree")
    /\ Stmt.arg \in fs
    /\ fs' = fs \ Under(Stmt.arg)
    /\ trace' = Append(trace, Event("rmtree", Stmt.name, {}, Stmt.arg, 0))
    /\ cpc' = cpc + 1
    /\ UNCHANGED <<cmd, calling, locals, exit_code>>

DoRmtreeMissing ==
    /\ At("rmtree")
    /\ Stmt.arg \notin fs
    /\ Fails(Event("raise", Stmt.name, {}, Stmt.arg, 0))
    /\ UNCHANGED fs

DoRaise ==
    /\ At("raise")
    /\ Fails(Event("raise", Stmt.name, {}, None, 0))
    /\ UNCHANGED fs

\* The callback returns, or its last statement is done: the process exits 0.
Finish ==
    /\ Running
    /\ calling = None
    /\ \/ cpc > Len(Body(cmd, locals))
       \/ (cpc \in 1..Len(Body(cmd, locals)) /\ Stmt.op = "return")
    /\ exit_code' = 0
    /\ UNCHANGED <<cmd, cpc, calling, locals, trace, fs>>

\* A command line is run from the shell: the engine is not in a call of its own.
NoEngineCall ==
    /\ call = None
    /\ pc = None
    /\ genes = <<>>
    /\ cc = <<>>
    /\ idx = 1
    /\ p_values = <<>>
    /\ p_values_df = NoTable
    /\ output_file = NoTable
    /\ returned = NoTable
    /\ error = None
    /\ nextTask = 1
    /\ worker = <<>>
    /\ results = <<>>
    /\ overtaken = FALSE

InitCli ==
    /\ \/ cmd \in CommandLines /\ cpc = 0
       \/ cmd \in LibraryCalls /\ cpc = 1
    /\ calling = None
    /\ locals = NoLocals
    /\ trace = <<>>
    /\ exit_code = NoExit
    /\ fs = cmd.fs0
    /\ NoEngineCall

Cli(A) == A /\ UNCHANGED engineVars

NextCli ==
    \/ Cli(ParseUsageError)
    \/ Cli(ParseInvoke)
    \/ Cli(DoEcho)
    \/ Cli(DoConfirm)
    \/ Cli(DoPrompt)
    \/ Cli(PromptAbort)
    \/ Cli(CallTypeError)
    \/ Cli(CallStart)
    \/ Cli(StepStart)
    \/ Cli(DoResult)
    \/ Cli(RscriptRun)
    \/ Cli(CallReturn)
    \/ Cli(CallRaise)
    \/ Cli(DoSubprocess)
    \/ Cli(DoRmtree)
    \/ Cli(DoRmtreeMissing)
    \/ Cli(DoRaise)
    \/ Cli(Finish)

SpecCli == InitCli /\ [][NextCli]_vars

\* ============================================ the command layer's properties
Exited == exit_code # NoExit
Positions == 1..Len(trace)
Occurs(ev, name) == {k \in Positions : trace[k].ev = ev /\ trace[k].name = name}
EventsOf(ev) == {k \in Positions : trace[k].ev = ev}
Before(k, ev, name) == {j \in Occurs(ev, name) : j < k}

\* The command line omits a required option, or gives a choice-typed option a
\* value outside its set.
OmitsRequired == \E o \in Required(cmd.prog, cmd.name) : o \notin cmd.given
OutsideChoice ==
    \E o \in DOMAIN cmd.choice : cmd.choice[o] \notin Choice(cmd.prog, cmd.name, o)

\* C6: for every command of both programs, a command line with a required
\* option omitted or a choice-typed option outside its enumerated set never gets
\* past the parser: the callback is not entered, nothing is called, asked or
\* printed by it, no directory or file appears or disappears, and the only exit
\* status the process can have is a non-zero one.
C6_UsageErrorNoEffects ==
    (cmd.prog \in Programs /\ (OmitsRequired \/ OutsideChoice)) =>
        /\ cpc = 0
        /\ calling = None
        /\ trace = <<>>
        /\ locals = NoLocals
        /\ fs = cmd.fs0
        /\ Exited => exit_code = UsageExit /\ exit_code # 0

\* C6's case: every required option is given, a choice-typed option has a value
\* outside its set, the directory was there before, and the process has exited.
C6_Witness ==
    /\ cmd.prog \in Programs
    /\ ~OmitsRequired
    /\ OutsideChoice
    /\ cmd.fs0 # {}
    /\ Exited
    /\ exit_code = UsageExit
    /\ trace = <<>>

IsAssociationCommand == cmd.name \in {"find-association", "calculate-pval"}
IsBetareg == "test" \in DOMAIN cmd.choice /\ cmd.choice["test"] = "betareg"
NothingRaised == EventsOf("raise") = {}

\* C7 as the specification states it: once find-association or calculate-pval
\* has ended without a called function raising, with betareg the R script was run
\* exactly once, with all seven arguments, and find_pvalue was not called; with
\* any other test find_pvalue was called exactly once and no R script was run.
C7_DispatchExactlyOnce ==
    (IsAssociationCommand /\ cpc >= 1 /\ Exited /\ NothingRaised) =>
        IF IsBetareg
        THEN /\ Cardinality(EventsOf("Rscript")) = 1
             /\ \A k \in EventsOf("Rscript") :
                    /\ trace[k].name = "betareg_pvalues"
                    /\ trace[k].kw = RscriptArgs("betareg_pvalues")
             /\ Occurs("call", "find_pvalue") = {}
        ELSE /\ Cardinality(Occurs("call", "find_pvalue")) = 1
             /\ EventsOf("Rscript") = {}

\* C8 as the specification states it: a command in which an R script exited
\* with a non-zero status does not itself exit with status 0.
C8_ScriptFailureSurfaces ==
    (Exited /\ \E k \in EventsOf("Rscript") : trace[k].rc # 0) => exit_code # 0

\* C9: in score-genes of both programs the stages run in the order
\* get_gene_info, plink_process, combine_scores, each at most once and each
\* called only after the one before has returned; plink_process is given the
\* folder get_gene_info returned; 'process is complete.' is printed only after
\* combine_scores has returned.
C9_StagesInOrder ==
    cmd.name = "score-genes" =>
        /\ \A fn \in {"get_gene_info", "plink_process", "combine_scores"} :
               Cardinality(Occurs("call", fn)) <= 1
        /\ \A k \in Occurs("call", "plink_process") :
               \E j \in Before(k, "return", "get_gene_info") : trace[k].val = trace[j].val
        /\ \A k \in Occurs("call", "combine_scores") :
               Before(k, "return", "plink_process") # {}
        /\ \A k \in Occurs("echo", "process is complete.") :
               Before(k, "return", "combine_scores") # {}
        /\ \A k \in EventsOf("call") :
               \A j \in EventsOf("call") : j < k => Before(k, "return", trace[j].name) # {}

\* C9's case: a score-genes run that went through the three stages and said so.
C9_Witness ==
    /\ cmd.name = "score-genes"
    /\ exit_code = 0
    /\ Occurs("return", "get_gene_info") # {}
    /\ Occurs("return", "plink_process") # {}
    /\ Occurs("return", "combine_scores") # {}
    /\ Occurs("echo", "process is complete.") # {}

IsRemovingCommand == cmd.name \in {"score-genes", "merge"}

\* What the operator said about the directory: the answer to the question in
\* genrisk's score-genes, the flag in cogenassess's score-genes and in merge.
Instructed ==
    IF cmd.name = "score-genes" /\ cmd.prog = "genrisk"
    THEN locals.confirm /\ EventsOf("prompt") # {}
    ELSE {"remove_temp", "remove_input"} \cap cmd.given # {}

\* C10: score-genes and merge remove their directory only when told to, and
\* only after combine_scores has returned and the matrix is written; when not
\* told to, and when a stage has raised, nothing is removed: what was there at the
\* start is still there.
C10_CleanupOnlyWhenInstructed ==
    IsRemovingCommand =>
        /\ \A k \in EventsOf("rmtree") :
               /\ Instructed
               /\ trace[k].val = Directory(cmd.name)
               /\ Before(k, "return", "combine_scores") # {}
               /\ "output" \in fs
        /\ EventsOf("rmtree") = {} => cmd.fs0 \subseteq fs
        /\ ~Instructed => EventsOf("rmtree") = {}
        /\ (\E j \in EventsOf("raise") : trace[j].name # "shutil.rmtree") =>
               EventsOf("rmtree") = {}

\* C10's case: the operator said yes, the matrix was assembled, and the
\* directory that was there at the start is gone.
C10_Witness ==
    /\ IsRemovingCommand
    /\ exit_code = 0
    /\ Instructed
    /\ EventsOf("rmtree") # {}
    /\ Directory(cmd.name) \in cmd.fs0
    /\ Directory(cmd.name) \notin fs

AskedAt(text) == Occurs("prompt", text)
Declined == \E k \in AskedAt(CompatibilityQuestion) : trace[k].val = "no"
ScoringRuns == Occurs("subprocess", "plink")

\* C11: in get-prs, once the operator has answered no to the compatibility
\* question, the scoring executable is not run, no output path is asked for, a
\* PGS file that was downloaded is still there, and the only way the wizard ends
\* is with exit status 0 after its completion message.
C11_DeclineSkipsScoring ==
    (cmd.name = "get-prs" /\ Declined) =>
        /\ ScoringRuns = {}
        /\ AskedAt(OutputQuestion) = {}
        /\ Occurs("return", "download_pgs") # {} => "pgs_file" \in fs
        /\ exit_code \in {NoExit, 0}
        /\ Exited => Occurs("echo", CompleteMessage) # {}

\* C11's case: a PGS file was downloaded, the operator declined, the wizard ended.
C11_Witness ==
    /\ cmd.name = "get-prs"
    /\ Declined
    /\ Occurs("return", "download_pgs") # {}
    /\ "pgs_file" \in fs
    /\ exit_code = 0
    /\ Occurs("echo", CompleteMessage) # {}

\* Where the PGS file of the run was settled: the download, or the path given.
SourceSettled ==
    IF \E k \in AskedAt("Do you want to download PGS file?") : trace[k].val = "yes"
    THEN Occurs("return", "download_pgs")
    ELSE AskedAt("Please provide path to PGS file")

\* C12: in get-prs the scoring executable is run at most once, and only after
\* the source question, the PGS file, the three column questions (id, allele,
\* weight), the input form, the input path, a yes to the compatibility question
\* and the output path, in this order; its command line is the executable, --vcf
\* for the form vcf and --bfile for bfile, the input path, --score, the PGS file,
\* the three columns in the order id, allele, weight, sum, --out, the output path.
C12_ScoringAfterAllAnswers ==
    cmd.name = "get-prs" =>
        /\ Cardinality(ScoringRuns) <= 1
        /\ \A k \in ScoringRuns :
               \E q \in AskedAt("Do you want to download PGS file?"),
                  p \in SourceSettled,
                  i \in AskedAt("Please provide the ID column number"),
                  a \in AskedAt("Please provide the effect allele column number"),
                  w \in AskedAt("Please provide the effect weight column number"),
                  f \in AskedAt("Do you have a VCF file or binary files?"),
                  n \in AskedAt("Please provide the path to input file"),
                  y \in AskedAt(CompatibilityQuestion),
                  o \in AskedAt(OutputQuestion) :
                   /\ q < p /\ p < i /\ i < a /\ a < w /\ w < f /\ f < n
                   /\ n < y /\ y < o /\ o < k
                   /\ trace[y].val = "yes"
                   /\ trace[f].val \in {"vcf", "bfile"}
                   /\ trace[k].val =
                          <<"plink",
                            IF trace[f].val = "vcf" THEN "--vcf" ELSE "--bfile",
                            trace[n].val, "--score", trace[p].val,
                            trace[i].val, trace[a].val, trace[w].val,
                            "sum", "--out", trace[o].val>>

\* C12's case: binary files were chosen, the columns 1, 2, 1 were given, and the
\* executable was run on the downloaded PGS file.
C12_Witness ==
    /\ cmd.name = "get-prs"
    /\ exit_code = 0
    /\ \E k \in ScoringRuns :
           trace[k].val = <<"plink", "--bfile", "input", "--score", "pgs_file",
                            "1", "2", "1", "sum", "--out", "output">>

\* C13 as the specification states it: in get-prs, after a preview command or a
\* scoring run that exited with a non-zero status, the wizard shows a message
\* about it before its completion message, and ends with exit status 0.
C13_FailureReportedAsMessage ==
    (cmd.name = "get-prs" /\ Exited /\ exit_code = 0) =>
        \A k \in EventsOf("subprocess") :
            trace[k].rc # 0 =>
                \E m \in EventsOf("echo") :
                    /\ m = k + 1
                    /\ trace[m].name # CompleteMessage

InfoFileMessage ==
    "Please provide a file with gene information to generate manhattan plot."
IsPlotCommand == cmd.prog = "genrisk" /\ cmd.name = "visualize" /\ cpc >= 1

\* C14: genrisk's visualize with a Manhattan plot requested and no info file
\* never draws the Manhattan plot and never exits with status 0, with or without
\* a QQ plot requested; without a Manhattan plot requested the info file is never
\* complained about, and the command exits 0 unless a called function raises.
C14_ManhattanNeedsInfoFile ==
    IsPlotCommand =>
        /\ ("manhattan_output" \in cmd.given /\ "info_file" \notin cmd.given) =>
               /\ Occurs("call", "draw_manhattan") = {}
               /\ "manhattan_output" \notin fs
               /\ exit_code # 0
               /\ (Exited /\ Occurs("raise", "pd.read_csv") = {}
                          /\ Occurs("raise", "draw_qqplot") = {}) =>
                      Occurs("raise", InfoFileMessage) # {}
        /\ "manhattan_output" \notin cmd.given =>
               /\ Occurs("raise", InfoFileMessage) = {}
               /\ (Exited /\ NothingRaised) => exit_code = 0

\* C14's case: both plots requested, no info file: the QQ plot is drawn, then
\* the command fails.
C14_Witness ==
    /\ IsPlotCommand
    /\ {"qq_output", "manhattan_output"} \subseteq cmd.given
    /\ "info_file" \notin cmd.given
    /\ Occurs("return", "draw_qqplot") # {}
    /\ Occurs("raise", InfoFileMessage) # {}
    /\ exit_code = ExceptionExit

\* create_prediction_model runs: called as a function, or from create-model.
IsLibraryCall == cmd.name = "create_prediction_model"
IsModelRun == cpc >= 1 /\ cmd.name \in {"create_prediction_model", "create-model"}
KindOf == cmd.choice["model_type"]
HeldOut ==
    IF IsLibraryCall THEN cmd.choice["testing_set"]
    ELSE IF "test" \in cmd.given THEN "rows" ELSE "empty"
MetricGiven ==
    IF IsLibraryCall THEN cmd.choice["metric"]
    ELSE IF "metric" \in cmd.given THEN "MAE" ELSE None
KnownKind == KindOf \in {"regressor", "classifier"}
\* The raises that come from a called function, not from the code itself.
LibraryRaises == {k \in EventsOf("raise") : trace[k].name \notin {NoIndexError, NotIterableError}}

\* C15: create_prediction_model called with a kind that is neither regressor
\* nor classifier does nothing but hand back an error value that names the two
\* valid kinds: nothing is called, nothing is written, nothing is raised.
C15_UnknownKindIsErrorValue ==
    (IsLibraryCall /\ KindOf \notin {"regressor", "classifier"}) =>
        /\ \A k \in Positions :
               /\ trace[k].ev = "result"
               /\ trace[k].name = ModelKindError
        /\ Len(trace) <= 1
        /\ fs = cmd.fs0
        /\ calling = None
        /\ exit_code \in {NoExit, 0}
        /\ Exited => Len(trace) = 1

\* C15's case: the call with an unknown kind has returned its error value.
C15_Witness ==
    /\ IsLibraryCall
    /\ KindOf = Bogus
    /\ exit_code = 0
    /\ Occurs("result", ModelKindError) # {}

\* C16 as the specification states it: in a run of create_prediction_model of
\* either kind that has ended without a called function raising, the held-out
\* table was scored exactly when it was given with rows; and when it was absent
\* or empty, the run ended without error, the finalized model was saved, and the
\* metrics handed back are empty.
C16_HoldoutIffSupplied ==
    (IsModelRun /\ KnownKind /\ Exited /\ LibraryRaises = {}) =>
        /\ Occurs("call", "predict_model") # {} <=> HeldOut = "rows"
        /\ HeldOut # "rows" =>
               /\ exit_code = 0
               /\ Occurs("return", "save_model") # {}
               /\ \E k \in Occurs("result", "metrics, final_model") : trace[k].val = None

TrainingSteps ==
    <<"setup", "compare_models", "create_model", "tune_model", "finalize_model",
      "save_model">>

\* C17 as the specification states it: in a run of create_prediction_model of
\* kind K the steps setup, compare, fit, tune, finalize, save start in this order,
\* each after the one before has returned and each in the experiment module of K;
\* tuning optimizes the metric the comparison sorted by (RMSE, resp. AUC, when
\* none is given); each step works on the model the step before produced, so the
\* saved model is the finalized tuned one.
C17_OneExperimentInOrder ==
    (IsModelRun /\ KnownKind) =>
        LET module == IF KindOf = "regressor" THEN "pyreg" ELSE "cl"
            default == IF KindOf = "regressor" THEN "RMSE" ELSE "AUC"
            metric == IF MetricGiven = None THEN default ELSE MetricGiven
        IN  \A i \in 1..Len(TrainingSteps) :
                \A k \in Occurs("call", TrainingSteps[i]) :
                    /\ trace[k].val[1] = module
                    /\ i > 1 =>
                           \E j \in Before(k, "call", TrainingSteps[i - 1]) :
                               /\ Before(k, "return", TrainingSteps[i - 1]) # {}
                               /\ i > 2 => trace[k].val[3] = trace[j].val[2]
                    /\ TrainingSteps[i] \in {"compare_models", "tune_model"} =>
                           trace[k].val[4] = metric

\* ======================================================= the tables' data
\* SpecData: the functions whose result is a table computed from tables:
\* calc_corr (cogenassess/cli.py), uni_profiles (helpers.py) and the first
\* lines of find_pvalue (pipeline.py), on small tables.  A table is the record
\* [cols, rows, ok] of the engine; a sample identifier is a number of
\* 1..NSamples, a score is a number, NaN or Inf.

NSamples == 4

Inf == PScale * PScale
SamplesCol == "IID"
GeneNames == <<"G1", "G2", "G3">>

\* ------------------------------------------------------------- pandas
Without(s, i) == SubSeq(s, 1, i - 1) \o SubSeq(s, i + 1, Len(s))
Range(s) == {s[k] : k \in 1..Len(s)}

\* df[[names]]: the named columns, in the order asked for.
Select(df, names) ==
    [df EXCEPT !.cols = names,
               !.rows = [k \in 1..Len(df.rows) |->
                            [c \in 1..Len(names) |-> df.rows[k][ColIndex(df.cols, names[c])]]]]

\* df.rename(columns={old: new})
Rename(df, old, new) ==
    [df EXCEPT !.cols = [c \in 1..Len(df.cols) |-> IF df.cols[c] = old THEN new ELSE df.cols[c]]]

\* The mutant of Merge: an outer join of tables of unique keys, the keys the
\* right table lacks filled with NaN and the keys only it has appended.
MergeOuter(left, right, on) ==
    LET li == ColIndex(left.cols, on)
        ri == ColIndex(right.cols, on)
        width == Len(right.cols) - 1
        inLeft == {left.rows[k][li] : k \in 1..Len(left.rows)}
        fromLeft ==
            [k \in 1..Len(left.rows) |->
                LET m == SelectSeq(right.rows, LAMBDA r : r[ri] = left.rows[k][li])
                IN  left.rows[k] \o
                    (IF m = <<>> THEN [c \in 1..width |-> NaN] ELSE Without(m[1], ri))]
        onlyRight == SelectSeq(right.rows, LAMBDA r : r[ri] \notin inLeft)
        fromRight ==
            [k \in 1..Len(onlyRight) |->
                [c \in 1..Len(left.cols) |-> IF c = li THEN onlyRight[k][ri] ELSE NaN]
                \o Without(onlyRight[k], ri)]
        both == (Range(left.cols) \cap Range(right.cols)) \ {on}
    IN  [cols |-> [c \in 1..Len(left.cols) |->
                      IF left.cols[c] \in both THEN left.cols[c] \o "_x" ELSE left.cols[c]]
                  \o [c \in 1..width |->
                      LET n == Without(right.cols, ri)[c]
                      IN  IF n \in both THEN n \o "_y" ELSE n],
         rows |-> fromLeft \o fromRight,
         ok |-> TRUE]

RECURSIVE JoinRows(_, _, _, _)
\* Every left row, in the left table's order, with every right row of its key.
JoinRows(lrows, rrows, li, ri) ==
    IF lrows = <<>> THEN <<>>
    ELSE LET m == SelectSeq(rrows, LAMBDA r : r[ri] = Head(lrows)[li])
         IN  [k \in 1..Len(m) |-> Head(lrows) \o Without(m[k], ri)]
             \o JoinRows(Tail(lrows), rrows, li, ri)

\* pd.merge(left, right, on=on): how='inner'; the key column once, then the
\* left table's other columns, then the right table's; a label the two tables
\* share besides the key gets the suffixes _x and _y.
Merge(left, right, on) ==
    LET li == ColIndex(left.cols, on)
        ri == ColIndex(right.cols, on)
        rest == Without(right.cols, ri)
        both == (Range(left.cols) \cap Range(right.cols)) \ {on}
    IN  [cols |-> [c \in 1..Len(left.cols) |->
                      IF left.cols[c] \in both THEN left.cols[c] \o "_x" ELSE left.cols[c]]
                  \o [c \in 1..Len(rest) |->
                      IF rest[c] \in both THEN rest[c] \o "_y" ELSE rest[c]],
         rows |-> JoinRows(left.rows, right.rows, li, ri),
         ok |-> TRUE]

\* df.replace([np.inf, -np.inf, np.nan], 0.0)
Replaced(v) == IF v \in {NaN, Inf} THEN 0 ELSE v
Replace(df) ==
    [df EXCEPT !.rows = [k \in 1..Len(df.rows) |->
                            [c \in 1..Len(df.cols) |-> Replaced(df.rows[k][c])]]]

\* The mutant of DropNa: no row removed.
DropNaOmitted(df, subset) == df

\* df.dropna(subset=[subset])
DropNa(df, subset) ==
    [df EXCEPT !.rows = SelectSeq(df.rows, LAMBDA r : ~IsNaN(r[ColIndex(df.cols, subset)]))]

\* ------------------------------------------------------------- inputs
\* The identifier columns tried: every set of identifiers in ascending order,
\* one in another order, one with an identifier twice.
RECURSIVE Ascending(_)
Ascending(S) ==
    IF S = {} THEN <<>>
    ELSE LET m == CHOOSE x \in S : \A y \in S : y <= x
         IN  Append(Ascending(S \ {m}), m)
IdLists == {Ascending(S) : S \in SUBSET (1..NSamples)} \cup {<<2, 1>>, <<1, 1, 2>>}

\* The score columns tried, by the value a sample has in them.
ColumnKinds == {"varied", "flat", "holes"}
ScoreOf(kind, id) ==
    CASE kind = "varied" -> id % 2
      [] kind = "flat" -> 1
      [] kind = "holes" -> IF id = 1 THEN NaN ELSE IF id = 2 THEN 0 ELSE Inf

\* The kinds of the columns of one matrix, by position among GeneNames.
KindChoices ==
    {[g \in 1..Len(GeneNames) |-> "varied"],
     [g \in 1..Len(GeneNames) |-> IF g = 1 THEN "holes" ELSE "varied"],
     [g \in 1..Len(GeneNames) |-> IF g = 2 THEN "flat" ELSE "varied"]}

GeneAt(name) == CHOOSE g \in 1..Len(GeneNames) : GeneNames[g] = name

\* A score matrix: the given labels, one row for each identifier.
Matrix(cols, ids, kinds) ==
    [cols |-> cols,
     rows |-> [k \in 1..Len(ids) |->
                  [c \in 1..Len(cols) |->
                      IF cols[c] = SamplesCol THEN ids[k]
                      ELSE ScoreOf(kinds[GeneAt(cols[c])], ids[k])]],
     ok |-> TRUE]

Ids(df, on) == {df.rows[k][ColIndex(df.cols, on)] : k \in 1..Len(df.rows)}
Unique(df, on) ==
    \A j, k \in 1..Len(df.rows) :
        df.rows[j][ColIndex(df.cols, on)] = df.rows[k][ColIndex(df.cols, on)] => j = k

\* ------------------------------------------------------------ calc_corr
\* What pearsonr answers for a gene whose two columns it accepts.
CorrAnswers ==
    {[n \in Range(GeneNames) |->
         [corr |-> PScale \div 2,
          p_value |-> IF n = "G1" THEN PScale \div 2 ELSE IF n = "G2" THEN 2 ELSE 1]],
     [n \in Range(GeneNames) |-> [corr |-> 0 - PScale, p_value |-> 1]]}

CalcCorrCalls ==
    [fn : {"calc_corr"},
     first : {Matrix(cols, ids, kinds) :
                 cols \in {<<SamplesCol, "G1", "G2">>, <<"G1", "G2">>},
                 ids \in IdLists, kinds \in KindChoices},
     second : {Matrix(cols, ids, kinds) :
                  cols \in {<<SamplesCol, "G2">>, <<SamplesCol, "G2", "G1">>,
                            <<SamplesCol, "G3">>, <<SamplesCol, "G1", "G2", "G3">>},
                  ids \in IdLists, kinds \in KindChoices},
     samples_col : {SamplesCol},
     lib : CorrAnswers]

\* genes_01.remove(samples_col); set(genes_01).intersection(genes_02)
CommonGenes(first, second, samples_col) ==
    (Range(first.cols) \ {samples_col}) \cap (Range(second.cols) \ {samples_col})

\* list(common_genes): a set's elements in some order.
Orders(S) ==
    {o \in [1..Cardinality(S) -> S] : \A j, k \in 1..Cardinality(S) : o[j] = o[k] => j = k}

IsConstant(x) == \A j, k \in 1..Len(x) : x[j] = x[k]

\* pearsonr(x, y): ValueError on fewer than two samples; NaN, NaN when a
\* column is constant; else the library's answer.
PearsonrRaises(x) == Len(x) < 2
Pearsonr(x, y, answer) ==
    IF IsConstant(x) \/ IsConstant(y) THEN [corr |-> NaN, p_value |-> NaN] ELSE answer

\* One iteration of the loop: the joined table of the gene's two columns.
GeneDf(c, gene) ==
    Replace(Merge(Select(c.first, <<c.samples_col, gene>>),
                  Select(c.second, <<c.samples_col, gene>>), c.samples_col))

CorrCols == <<"genes", "corr", "p_value">>

CalcCorr ==
    /\ pc = "start"
    /\ call.fn = "calc_corr"
    /\ pc' = "done"
    /\ IF call.samples_col \notin Range(call.first.cols)
          \/ call.samples_col \notin Range(call.second.cols)
       THEN \* list.remove(x): x not in list
            /\ error' = "ValueError"
            /\ UNCHANGED <<genes, p_values, results, output_file>>
       ELSE \E order \in Orders(CommonGenes(call.first, call.second, call.samples_col)) :
            LET x(k) == Column(GeneDf(call, order[k]), order[k] \o "_x")
                y(k) == Column(GeneDf(call, order[k]), order[k] \o "_y")
                corr_info ==
                    [k \in 1..Len(order) |->
                        <<order[k], Pearsonr(x(k), y(k), call.lib[order[k]]).corr,
                          Pearsonr(x(k), y(k), call.lib[order[k]]).p_value>>]
            IN  /\ genes' = order
                /\ results' = [k \in 1..Len(order) |-> [gene |-> order[k], x |-> x(k), y |-> y(k)]]
                /\ IF \E k \in 1..Len(order) : PearsonrRaises(x(k))
                   THEN /\ error' = "ValueError"
                        /\ UNCHANGED <<p_values, output_file>>
                   ELSE /\ p_values' = corr_info
                        /\ output_file' = SortValues(DataFrame(corr_info, CorrCols), "p_value")
                        /\ UNCHANGED error
    /\ UNCHANGED <<call, cc, idx, p_values_df, returned, nextTask, worker, overtaken>>

\* --------------------------------------------------------- uni_profiles
\* A plink .profile report of one gene: the columns read and one that is not.
ProfileCols == <<SamplesCol, "CNT", "SCORESUM">>
Profile(ids, kind) ==
    [cols |-> ProfileCols,
     rows |-> [k \in 1..Len(ids) |-> <<ids[k], 2, ScoreOf(kind, ids[k])>>],
     ok |-> TRUE]

UniProfilesCalls ==
    [fn : {"uni_profiles"},
     df : {Matrix(cols, ids, kinds) :
              cols \in {<<SamplesCol, "G1">>, <<SamplesCol, "G1", "G2">>},
              ids \in IdLists, kinds \in KindChoices},
     f : [stem : {"G2", "G3"}, suffix : {".profile", ".txt"},
          table : {Profile(ids, "varied") : ids \in IdLists}]]

\* re.compile("([a-zA-Z0-9_.-]*).profile$").findall(str(f))
FindAll(f) == IF f.suffix = ".profile" THEN <<f.stem>> ELSE <<>>

UniProfiles ==
    /\ pc = "start"
    /\ call.fn = "uni_profiles"
    /\ pc' = "done"
    /\ LET df2 == Select(call.f.table, <<SamplesCol, "SCORESUM">>)
           gene2 == FindAll(call.f)
       IN  IF gene2 = <<>>
           THEN \* gene2[0]
                /\ error' = "IndexError"
                /\ UNCHANGED returned
           ELSE /\ returned' = Merge(call.df, Rename(df2, "SCORESUM", gene2[1]), SamplesCol)
                /\ UNCHANGED error
    /\ UNCHANGED <<call, genes, cc, idx, p_values, p_values_df, output_file, nextTask,
                   worker, results, overtaken>>

\* ------------------------------------------- find_pvalue, the first lines
CasesCol == "pheno"

\* The outcome columns tried, by the value a sample has in them.
OutcomeKinds == {"two", "all", "gaps"}
OutcomeOf(kind, id) ==
    CASE kind = "two" -> 1 + (id % 2)
      [] kind = "all" -> 1 + ((id - 1) % NCats)
      [] kind = "gaps" -> IF id = 1 THEN NaN ELSE 1 + (id % 2)

\* The phenotype file: the two columns read and one that is not.
Genotype(ids, kind) ==
    [cols |-> <<SamplesCol, "age", CasesCol>>,
     rows |-> [k \in 1..Len(ids) |-> <<ids[k], 40, OutcomeOf(kind, ids[k])>>],
     ok |-> TRUE]

PreprocessCalls ==
    [fn : {"find_pvalue"},
     genotype_file : {Genotype(ids, kind) : ids \in IdLists, kind \in OutcomeKinds},
     scores_df : {Matrix(<<SamplesCol, "G1", "G2">>, ids, kinds) :
                     ids \in IdLists, kinds \in KindChoices},
     genes : {NoList, Given(<<"G1">>)},
     test : TwoGroupTests \cup {"logit"},
     covariates : {Given(<<"PC1">>)},
     split : [cases : {NoCat}, controls : {NoCat}] \cup [cases : {2}, controls : {1}]]

\* merged_df of find_pvalue.
MergedDf(c) ==
    Merge(DropNa(Select(c.genotype_file, <<SamplesCol, CasesCol>>), CasesCol),
          c.scores_df, SamplesCol)

\* list(df_by_cases.groups.keys()): the outcome values of the table, ascending.
Groups(df) == Ascending({df.rows[k][ColIndex(df.cols, CasesCol)] : k \in 1..Len(df.rows)})

\* df_by_cases.get_group(category)
GetGroup(df, category) ==
    [df EXCEPT !.rows = SelectSeq(df.rows, LAMBDA r : r[ColIndex(df.cols, CasesCol)] = category)]

\* The mutant of Compared: the last two categories.
ComparedLastTwo(categories) ==
    <<categories[Len(categories) - 1], categories[Len(categories)]>>

\* cc[0], cc[1]: the categories whose groups become case_0 and case_1.
Compared(categories) == <<categories[1], categories[2]>>

\* find_pvalue down to the samples the first gene's test is given.
FindPvalueSamples ==
    /\ pc = "start"
    /\ call.fn = "find_pvalue"
    /\ pc' = "done"
    /\ LET merged_df == MergedDf(call)
           categories ==
               IF call.split.cases # NoCat /\ call.split.controls # NoCat
               THEN <<call.split.cases, call.split.controls>>
               ELSE Groups(merged_df)
       IN  /\ cc' = categories
           /\ genes' = IF call.genes.given THEN call.genes.list
                       ELSE Tail(call.scores_df.cols)
           /\ returned' = merged_df
           /\ IF call.test \in RegressionTests
              THEN \* merged_df[[cols]]
                   /\ error' = IF call.covariates.given THEN "KeyError" ELSE "TypeError"
                   /\ UNCHANGED results
              ELSE IF Len(categories) < 2
              THEN /\ error' = "IndexError"
                   /\ UNCHANGED results
              ELSE IF \E k \in 1..2 : categories[k] \notin Range(Groups(merged_df))
              THEN /\ error' = "KeyError"
                   /\ UNCHANGED results
              ELSE \* case_0, case_1: the rows of the two compared categories
                   /\ results' = <<GetGroup(merged_df, Compared(categories)[1]),
                                   GetGroup(merged_df, Compared(categories)[2])>>
                   /\ UNCHANGED error
    /\ UNCHANGED <<call, idx, p_values, p_values_df, output_file, nextTask, worker,
                   overtaken>>

\* run_mannwhitneyu / run_ttest are given the joined table.
TwoGroupCalls ==
    [fn : TwoGroupHelpers,
     df : {Merge(Select(Genotype(ids, kind), <<SamplesCol, CasesCol>>),
                 Matrix(<<SamplesCol, "G1", "G2">>, ids, [g \in 1..Len(GeneNames) |-> "varied"]),
                 SamplesCol) :
              ids \in IdLists, kind \in {"two", "all"}},
     genes : {Given(<<"G1">>), Given(<<"G2", "G1">>)},
     split : [cases : {NoCat}, controls : {NoCat}] \cup [cases : {2}, controls : {1}]]

\* run_mannwhitneyu / run_ttest down to the samples the first gene's test is given.
RunTwoGroupSamples ==
    /\ pc = "start"
    /\ call.fn \in TwoGroupHelpers
    /\ pc' = "done"
    /\ LET categories ==
               IF call.split.cases # NoCat /\ call.split.controls # NoCat
               THEN <<call.split.cases, call.split.controls>>
               ELSE Groups(call.df)
       IN  /\ cc' = categories
           /\ genes' = call.genes.list
           /\ IF Len(categories) < 2
              THEN /\ error' = "IndexError"
                   /\ UNCHANGED results
              ELSE IF \E k \in 1..2 : categories[k] \notin Range(Groups(call.df))
              THEN /\ error' = "KeyError"
                   /\ UNCHANGED results
              ELSE /\ results' = <<GetGroup(call.df, Compared(categories)[1]),
                                   GetGroup(call.df, Compared(categories)[2])>>
                   /\ UNCHANGED error
    /\ UNCHANGED <<call, idx, p_values, p_values_df, output_file, returned, nextTask, worker,
                   overtaken>>

\* ------------------------------------------------------------- SpecData
DataCalls == CalcCorrCalls \cup UniProfilesCalls \cup PreprocessCalls \cup TwoGroupCalls

InitData ==
    /\ call \in DataCalls
    /\ pc = "start"
    /\ genes = <<>>
    /\ cc = <<>>
    /\ idx = 1
    /\ p_values = <<>>
    /\ p_values_df = NoTable
    /\ output_file = NoTable
    /\ returned = NoTable
    /\ error = None
    /\ nextTask = 1
    /\ worker = <<>>
    /\ results = <<>>
    /\ overtaken = FALSE
    /\ NoCommand

NextData ==
    \/ Engine(CalcCorr)
    \/ Engine(UniProfiles)
    \/ Engine(FindPvalueSamples)
    \/ Engine(RunTwoGroupSamples)

SpecData == InitData /\ [][NextData]_vars

\* ------------------------------------------------------ data properties
Finished(fn) == pc = "done" /\ call.fn = fn /\ error = None

\* The pairs of rows of the two matrices that have the same sample identifier.
SamePairs ==
    {ij \in (1..Len(call.first.rows)) \X (1..Len(call.second.rows)) :
        call.first.rows[ij[1]][ColIndex(call.first.cols, call.samples_col)]
            = call.second.rows[ij[2]][ColIndex(call.second.cols, call.samples_col)]}

\* The gene's two scores of such a pair, infinite and missing ones as 0.0.
ScoresOf(ij, gene) ==
    <<Replaced(call.first.rows[ij[1]][ColIndex(call.first.cols, gene)]),
      Replaced(call.second.rows[ij[2]][ColIndex(call.second.cols, gene)])>>

\* The columns given to pearsonr for the k-th gene are the scores of the pairs.
OverInnerJoin(k) ==
    LET r == results[k]
    IN  /\ Len(r.x) = Len(r.y)
        /\ \A v \in {<<r.x[n], r.y[n]>> : n \in 1..Len(r.x)}
                 \cup {ScoresOf(ij, r.gene) : ij \in SamePairs} :
               Cardinality({n \in 1..Len(r.x) : <<r.x[n], r.y[n]>> = v})
                   = Cardinality({ij \in SamePairs : ScoresOf(ij, r.gene) = v})

\* One row for each gene of both matrices, computed over the inner join.
RowsOfCommonGenes ==
    LET common == (Range(call.first.cols) \cap Range(call.second.cols)) \ {call.samples_col}
    IN  /\ output_file.ok
        /\ Len(output_file.rows) = Cardinality(common)
        /\ {output_file.rows[k][1] : k \in 1..Len(output_file.rows)} = common
        /\ \A k \in 1..Len(output_file.rows) :
               \E j \in 1..Len(results) :
                   /\ results[j].gene = output_file.rows[k][1]
                   /\ OverInnerJoin(j)
                   /\ output_file.rows[k][2]
                          = Pearsonr(results[j].x, results[j].y, call.lib[results[j].gene]).corr
                   /\ output_file.rows[k][3]
                          = Pearsonr(results[j].x, results[j].y, call.lib[results[j].gene]).p_value

C19_InnerJoinOneGeneColumn ==
    Finished("uni_profiles") =>
        /\ Ids(returned, SamplesCol) = Ids(call.df, SamplesCol) \cap Ids(call.f.table, SamplesCol)
        /\ Len(returned.cols) = Len(call.df.cols) + 1
        /\ Range(returned.cols) = Range(call.df.cols) \cup {call.f.stem}
        /\ (Unique(call.df, SamplesCol) /\ Unique(call.f.table, SamplesCol))
               => Unique(returned, SamplesCol)

\* The samples of both tables whose outcome is not missing.
OutcomesOf(id) ==
    {call.genotype_file.rows[k][ColIndex(call.genotype_file.cols, CasesCol)] :
        k \in {j \in 1..Len(call.genotype_file.rows) :
                  call.genotype_file.rows[j][ColIndex(call.genotype_file.cols, SamplesCol)] = id}}
InBothWithOutcome ==
    {id \in Ids(call.scores_df, SamplesCol) : OutcomesOf(id) \ {NaN} # {}}

\* The samples whose scores a test is given.
SamplesUsed == Ids(results[1], SamplesCol) \cup Ids(results[2], SamplesCol)

\* C20 (as claimed): the samples a test of find_pvalue is given are exactly the
\* samples of both tables whose outcome is not missing.
C20_TestsUseAllJoinedSamples ==
    Finished("find_pvalue") => SamplesUsed = InBothWithOutcome

\* C20 (amended): the table the tests draw from has exactly the samples of both
\* tables whose outcome is not missing, and a test is given those of them whose
\* outcome is one of the two compared categories.
C20_TestsUseJoinedSamplesOfCompared ==
    /\ (pc = "done" /\ call.fn = "find_pvalue") =>
           Ids(returned, SamplesCol) = InBothWithOutcome
    /\ Finished("find_pvalue") =>
           SamplesUsed = {id \in InBothWithOutcome : OutcomesOf(id) \cap {cc[1], cc[2]} # {}}

\* C20's case: a test was given samples, while a sample of both tables has no
\* outcome and a sample is in one of the two tables only.
C20_Witness ==
    /\ Finished("find_pvalue")
    /\ SamplesUsed # {}
    /\ \E id \in Ids(call.genotype_file, SamplesCol) \cap Ids(call.scores_df, SamplesCol) :
           OutcomesOf(id) = {NaN}
    /\ Ids(call.genotype_file, SamplesCol) # Ids(call.scores_df, SamplesCol)

\* The gene columns of the score matrix that have one value for every sample.
ConstantColumns ==
    {g \in Range(Tail(call.scores_df.cols)) : IsConstant(Column(call.scores_df, g))}

\* C21 as the specification states it: when find_pvalue is given no gene list,
\* the genes whose scores it hands to the test are exactly the gene columns of
\* the score matrix that are not constant.
C21_ConstantGenesDropped ==
    (Finished("find_pvalue") /\ ~call.genes.given) =>
        Range(genes) = Range(Tail(call.scores_df.cols)) \ ConstantColumns

\* A run of a two-group test that was left to choose the categories itself.
IsTwoGroupRun ==
    \/ call.fn = "find_pvalue" /\ call.test \in TwoGroupTests
    \/ call.fn \in TwoGroupHelpers
ChoosesCategories ==
    /\ pc = "done"
    /\ IsTwoGroupRun
    /\ call.split.cases = NoCat
    /\ call.split.controls = NoCat

\* The table whose rows are grouped by outcome, and the outcome of a row.
GroupedDf == IF call.fn = "find_pvalue" THEN returned ELSE call.df
OutcomeAt(k) == GroupedDf.rows[k][ColIndex(GroupedDf.cols, CasesCol)]
OutcomeSet == {OutcomeAt(k) : k \in 1..Len(GroupedDf.rows)}
RowsOfOutcome(v) == SelectSeq(GroupedDf.rows, LAMBDA r : r[ColIndex(GroupedDf.cols, CasesCol)] = v)
Lowest(S) == CHOOSE x \in S : \A y \in S : x <= y

\* C22: a two-group test left to choose among more than two outcome categories
\* ends without an error, and is given the rows of the first category as its
\* first sample and the rows of the second category as its second sample: no row
\* of a further category.
C22_FirstTwoCategoriesCompared ==
    (ChoosesCategories /\ Cardinality(OutcomeSet) > 2) =>
        /\ error = None
        /\ Len(results) = 2
        /\ results[1].rows = RowsOfOutcome(Lowest(OutcomeSet))
        /\ results[2].rows = RowsOfOutcome(Lowest(OutcomeSet \ {Lowest(OutcomeSet)}))

\* C22's case: the test was given two samples while a row of a third category
\* was in the table.
C22_Witness ==
    /\ ChoosesCategories
    /\ Cardinality(OutcomeSet) > 2
    /\ error = None
    /\ results[1].rows # <<>>
    /\ results[2].rows # <<>>
    /\ \E k \in 1..Len(GroupedDf.rows) :
           /\ OutcomeAt(k) \notin {cc[1], cc[2]}
           /\ GroupedDf.rows[k] \notin Range(results[1].rows) \cup Range(results[2].rows)

IsRegressionRun ==
    \/ call.fn \in PoolHelpers
    \/ call.fn = "find_pvalue" /\ call.test \in RegressionTests

\* What the column of a label holds for gene g when the row lines up.
LinedUp(label, g) ==
    CASE label = "genes" -> g
      [] label = "const_pval" -> ConstPval
      [] label = "p_value" -> GenePval(call.lib, g, 1)
      [] label = "beta_coef" -> BetaOf(g)
      [] label = "std_err" -> StdErrOf(g)
      [] OTHER -> CovPval(ColIndex(call.covariates.list, label))

\* C23 as the specification states it: in the table a regression backend
\* returns, every collected row has as many values as the table has columns, and
\* the row of gene g holds under p_value the p-value of g's score term, under
\* const_pval the intercept's, under each covariate's name that covariate's, and
\* under beta_coef / std_err the coefficient and standard error of g's term.
C23_RowsLineUp ==
    (pc = "done" /\ IsRegressionRun) =>
        /\ \A k \in 1..Len(p_values) : Len(p_values[k]) = Len(returned.cols)
        /\ \A k \in 1..Len(returned.rows) :
               \A c \in 1..Len(returned.cols) :
                   returned.rows[k][c] = LinedUp(returned.cols[c], returned.rows[k][1])
====
